---- MODULE Spec2Model ----
(***************************************************************************)
(* Host controller (python/delay_unit/core.py, class DelayUnit) driving    *)
(* the FPGA trigger-delay unit over a byte-oriented serial link.           *)
(*                                                                         *)
(* The host side is translated from core.py: every operation writes its    *)
(* opcode byte (and little-endian payload) to the serial port and returns. *)
(* The device side (the FPGA firmware) is not part of the Python sources;  *)
(* it is modelled from section 4.3 of the specification: it consumes the   *)
(* byte stream one frame at a time and runs the arm/disarm/counter state   *)
(* machine on qualifying input edges.                                      *)
(***************************************************************************)
EXTENDS Integers, Sequences, FiniteSets, TLC

(***************************************************************************)
(* Bounds of the model.                                                    *)
(***************************************************************************)
\* largest edge_count_target the host writes (the setter's inputs are 0..MaxTarget)
MaxTarget == 3
\* the device accepts an edge only while trigger_counter stays <= MaxTrig
MaxTrig == 2
\* the device accepts an edge only while edge_counter stays <= MaxEdgeCount
MaxEdgeCount == 2
\* number of command frames that may be in flight on the serial link
MaxFrames == 1
\* the observer counts at most MaxObs edges received Armed per observation window
MaxObs == 4
\* ... and at most MaxArms effective arm() calls and as many effective disarm() calls
MaxArms == 2
\* the device holds a response back while more than MaxRx bytes would be unread
MaxRx == 6
\* the same for the legacy device, whose status response has 8 bytes
MaxNanoseconds == 30
MaxStepsPerCycle == 6
MaxTotalSteps == 14
MaxLegacyRx == 8
\* a legacy read is followed while the coarse value it decodes is <= MaxLegacyCoarse
MaxLegacyCoarse == 200000

(***************************************************************************)
(* core.py: class Command                                                  *)
(***************************************************************************)
SET_COARSE == 1
GET_COARSE == 2
SET_EDGE == 3
GET_EDGE == 4
GET_STATUS == 5
RESET_COUNT == 6
SOFT_TRIGGER == 7
SET_OUTPUT_TRIGGER_WIDTH == 8
GET_OUTPUT_TRIGGER_WIDTH == 9
SET_TRIGGER_MODE == 10
GET_TRIGGER_MODE == 11
SET_SOFT_TRIGGER_WIDTH == 12
GET_SOFT_TRIGGER_WIDTH == 13
SET_COUNTER_MODE == 14
GET_COUNTER_MODE == 15
SET_EDGE_COUNT_TARGET == 16
GET_EDGE_COUNT_TARGET == 17
RESET_EDGE_COUNT == 18
ARM == 19
DISARM == 20
SET_ARMED_MODE == 21
GET_ARMED_MODE == 22
GET_ARMED == 23

\* core.py: class EdgeType
NONE == 0
RISING == 1
FALLING == 2
BOTH == 3
EdgeType == {NONE, RISING, FALLING, BOTH}

\* core.py: class TriggerMode
EXTERNAL == 0
INTERNAL == 1
TriggerMode == {EXTERNAL, INTERNAL}

\* core.py: class CounterMode
CounterMode_DISABLED == 0
CounterMode_ENABLED == 1
CounterMode == {CounterMode_DISABLED, CounterMode_ENABLED}

\* core.py: class ArmedMode
SINGLE == 0
REPEAT == 1
ArmedMode == {SINGLE, REPEAT}

(***************************************************************************)
(* State.                                                                  *)
(*   dev  the device state of section 3 (DeviceState)                      *)
(*   tx   bytes written by the host and not yet consumed by the device;    *)
(*        each byte remembers the host operation that wrote it             *)
(*   obs  observer (history) of the current observation window: it starts  *)
(*        whenever the device has processed a reset or a configuration     *)
(*        change, and counts what the host and the input did since then    *)
(*   rx   response bytes the device has sent and the host has not read     *)
(*   call the host call in progress or the last one that returned: a GET   *)
(*        operation is blocked in ser.read() while call.pc = "read"        *)
(***************************************************************************)
VARIABLES dev, tx, obs, rx, call

vars == <<dev, tx, obs, rx, call>>

(***************************************************************************)
(* struct.pack('<I', v): four little-endian bytes of an unsigned value.    *)
(***************************************************************************)
Pack_I(v) ==
    << v % 256, (v \div 256) % 256, (v \div 65536) % 256, (v \div 16777216) % 256 >>

\* struct.unpack('<I', data)[0]
Unpack_I(b) == b[1] + 256 * b[2] + 65536 * b[3] + 16777216 * b[4]

\* the two little-endian bytes of an unsigned 16-bit value
Pack_H(v) == << v % 256, (v \div 256) % 256 >>

\* struct.unpack('<H', data)[0]
Unpack_H(b) == b[1] + 256 * b[2]

(***************************************************************************)
(* Device side: framing.  The payload width the device expects after each  *)
(* opcode (section 6: fixed width per opcode, no length prefix).           *)
(***************************************************************************)
PayloadWidth(opcode) ==
    CASE opcode \in {SET_COARSE, SET_OUTPUT_TRIGGER_WIDTH,
                     SET_SOFT_TRIGGER_WIDTH, SET_EDGE_COUNT_TARGET} -> 4
      [] opcode \in {SET_EDGE, SET_TRIGGER_MODE, SET_COUNTER_MODE, SET_ARMED_MODE} -> 1
      [] OTHER -> 0

\* the byte values of a stretch of the link
Bytes(s) == [i \in 1..Len(s) |-> s[i].b]

\* number of (complete or started) frames in a byte stream
RECURSIVE FrameCount(_)
FrameCount(s) ==
    IF s = <<>> THEN 0
    ELSE LET w == 1 + PayloadWidth(s[1].b)
         IN  IF Len(s) <= w THEN 1
             ELSE 1 + FrameCount(SubSeq(s, w + 1, Len(s)))

(***************************************************************************)
(* Device side: the trigger state machine of section 4.3.                  *)
(***************************************************************************)
\* a trigger fires: count it, then apply the armed_mode disarm/stay rule
Fire(d) ==
    [d EXCEPT !.trigger_counter = @ + 1,
              !.armed = IF d.armed_mode = SINGLE THEN FALSE ELSE @]

\* a qualifying edge reaches the state machine
OnEdge(d) ==
    IF ~d.armed THEN d
    ELSE IF d.counter_mode = CounterMode_DISABLED THEN Fire(d)
    ELSE LET c == d.edge_counter + 1
         IN  IF c = d.edge_count_target
             THEN Fire([d EXCEPT !.edge_counter = 0])
             ELSE [d EXCEPT !.edge_counter = c]

\* edge qualification by EdgeType; dir is "rise" or "fall"
Qualifies(edge, dir) ==
    \/ edge = BOTH
    \/ edge = RISING /\ dir = "rise"
    \/ edge = FALLING /\ dir = "fall"

\* one transition of the trigger input
OnTransition(d, dir) == IF Qualifies(d.edge, dir) THEN OnEdge(d) ELSE d

\* a soft-trigger pulse: the input rises and falls again
OnPulse(d) == OnTransition(OnTransition(d, "rise"), "fall")

\* the device executes one complete frame
Exec(d, opcode, payload) ==
    CASE opcode = ARM -> [d EXCEPT !.armed = TRUE]
      [] opcode = DISARM -> [d EXCEPT !.armed = FALSE]
      [] opcode = SOFT_TRIGGER -> OnPulse(d)
      [] opcode = RESET_COUNT -> [d EXCEPT !.trigger_counter = 0]
      [] opcode = RESET_EDGE_COUNT -> [d EXCEPT !.edge_counter = 0]
      [] opcode = SET_EDGE -> [d EXCEPT !.edge = payload[1]]
      [] opcode = SET_COUNTER_MODE -> [d EXCEPT !.counter_mode = payload[1]]
      [] opcode = SET_ARMED_MODE -> [d EXCEPT !.armed_mode = payload[1]]
      [] opcode = SET_EDGE_COUNT_TARGET -> [d EXCEPT !.edge_count_target = Unpack_I(payload)]
      [] opcode = SET_COARSE -> [d EXCEPT !.coarse = Unpack_I(payload)]
      [] opcode = SET_TRIGGER_MODE -> [d EXCEPT !.trigger_mode = payload[1]]
      [] opcode = SET_OUTPUT_TRIGGER_WIDTH ->
            [d EXCEPT !.output_trigger_width = Unpack_I(payload)]
      [] opcode = SET_SOFT_TRIGGER_WIDTH ->
            [d EXCEPT !.soft_trigger_width = Unpack_I(payload)]
      [] OTHER -> d

\* the response the device sends to a GET command (section 4.1: raw bytes of the
\* exact width of the field, little-endian); commands other than GET send nothing.
\* d is the device state as its fields carry it: the trigger count of d fits the
\* 16 bits of the status field (see AsReported)
Respond(d, opcode) ==
    CASE opcode = GET_EDGE -> <<d.edge>>
      [] opcode = GET_COARSE -> Pack_I(d.coarse)
      [] opcode = GET_STATUS -> Pack_H(d.trigger_counter) \o Pack_I(d.coarse)
      [] opcode = GET_OUTPUT_TRIGGER_WIDTH -> Pack_I(d.output_trigger_width)
      [] opcode = GET_TRIGGER_MODE -> <<d.trigger_mode>>
      [] opcode = GET_SOFT_TRIGGER_WIDTH -> Pack_I(d.soft_trigger_width)
      [] opcode = GET_COUNTER_MODE -> <<d.counter_mode>>
      [] opcode = GET_EDGE_COUNT_TARGET -> Pack_I(d.edge_count_target)
      [] opcode = GET_ARMED -> <<IF d.armed THEN 1 ELSE 0>>
      [] opcode = GET_ARMED_MODE -> <<d.armed_mode>>
      [] OTHER -> <<>>

\* The values the 16-bit trigger_count field of the status response may carry.
\* A count below 2^16 is carried as it is.  What the field carries once the
\* count no longer fits is stated by neither the specification nor any source:
\* the wrapped value and the saturated value are both possible.
TriggerCountField(d) ==
    IF d.trigger_counter < 2^16 THEN {d.trigger_counter}
    ELSE {d.trigger_counter % 2^16, 2^16 - 1}

\* the device state as the fields of a response may carry it
AsReported(d) == {[d EXCEPT !.trigger_counter = c] : c \in TriggerCountField(d)}

\* the triggers a long run has fired when the model starts to follow it: the
\* last MaxTrig triggers before the count no longer fits 16 bits
LongRun == 2^16 - MaxTrig

\* the bound of the exploration in the specifications of safety properties: the
\* trigger counter in its first MaxTrig values, or in the MaxTrig values that
\* follow a long run, and the edge counter in its first MaxEdgeCount values.
\* A run stops being followed at the bound; nothing is concluded from an edge
\* that is not followed.  SpecCounting, whose edges must keep arriving, does
\* not stop at this bound: its edges are CountingTransition, always enabled.
InBounds(d) ==
    /\ IF d.trigger_counter < LongRun
       THEN d.trigger_counter <= MaxTrig
       ELSE d.trigger_counter <= LongRun + MaxTrig
    /\ d.edge_counter <= MaxEdgeCount

(***************************************************************************)
(* Observer.                                                               *)
(*   clean   the window started with both counters at 0 and no count of    *)
(*           the observer has overflowed its bound                         *)
(*   n       qualifying edges that arrived while the device was Armed      *)
(*   idle    a qualifying edge arrived while the device was Disarmed       *)
(*   arms    arm() calls that found the device Disarmed, plus 1 if the     *)
(*           device was Armed when the window opened                       *)
(*   disarms disarm() calls that found the device Armed                    *)
(*   mixed   armed_mode was changed inside the window                      *)
(***************************************************************************)
Dirty ==
    [clean |-> FALSE, n |-> 0, idle |-> FALSE, arms |-> 0, disarms |-> 0, mixed |-> FALSE]

NewWindow(d) ==
    IF d.trigger_counter = 0 /\ d.edge_counter = 0
    THEN [clean |-> TRUE, n |-> 0, idle |-> FALSE,
          arms |-> IF d.armed THEN 1 ELSE 0, disarms |-> 0, mixed |-> FALSE]
    ELSE Dirty

Norm(o) ==
    IF o.clean /\ o.n <= MaxObs /\ o.arms <= MaxArms /\ o.disarms <= MaxArms
    THEN o ELSE Dirty

\* the observer sees one transition of the input while the device is in state d
ObsTransition(o, d, dir) ==
    IF ~Qualifies(d.edge, dir) THEN o
    ELSE IF d.armed THEN [o EXCEPT !.n = @ + 1]
    ELSE [o EXCEPT !.idle = TRUE]

\* the observer sees the device finish the frame written by host operation op
ObsFrame(o, op, d, dnew) ==
    CASE op = "soft_trigger" ->
            ObsTransition(ObsTransition(o, d, "rise"), OnTransition(d, "rise"), "fall")
      [] op = "arm" -> IF d.armed THEN o ELSE [o EXCEPT !.arms = @ + 1]
      [] op = "disarm" -> IF d.armed THEN [o EXCEPT !.disarms = @ + 1] ELSE o
      [] op = "armed_mode" ->
            IF dnew.armed_mode # d.armed_mode THEN [o EXCEPT !.mixed = TRUE] ELSE o
      [] op = "edge" -> o
      [] OTHER -> NewWindow(dnew)

(***************************************************************************)
(* Host side: what a call returns to its caller.                           *)
(***************************************************************************)
\* return None
None == [kind |-> "None"]

\* return v
Value(v) == [kind |-> "value", v |-> v]

\* the call raises exception exc
Raise(exc) == [kind |-> "raise", exc |-> exc]

\* no host call has been made yet
Idle == [op |-> "", pc |-> "idle", want |-> 0, data |-> <<>>, result |-> None]

(***************************************************************************)
(* Host side: DelayUnit operations.  Each writes its bytes to the port.    *)
(***************************************************************************)
Tag(op, bytes) == [i \in 1..Len(bytes) |-> [op |-> op, b |-> bytes[i]]]

\* self.ser.write(...) of one host operation
Send(op, bytes) ==
    /\ call.pc # "read"
    /\ FrameCount(tx) < MaxFrames
    /\ tx' = tx \o Tag(op, bytes)
    /\ UNCHANGED <<dev, obs, rx, call>>

\* variant: arm() writes the ARM opcode and the DISARM opcode
arm_with_disarm == Send("arm", <<ARM, DISARM>>)

\* variant: arm() writes the DISARM opcode
arm_as_disarm == Send("arm", <<DISARM>>)

\* variant: arm() also pulses the soft trigger
arm_with_soft_trigger == Send("arm", <<ARM, SOFT_TRIGGER>>)

\* variant: arm() also clears the trigger counter
arm_with_reset_count == Send("arm", <<ARM, RESET_COUNT>>)

arm == Send("arm", <<ARM>>)

\* variant: disarm() writes the ARM opcode
disarm_as_arm == Send("disarm", <<ARM>>)

\* variants: disarm() also clears a counter
disarm_with_reset_count == Send("disarm", <<DISARM, RESET_COUNT>>)

disarm_with_reset_edge_count == Send("disarm", <<DISARM, RESET_EDGE_COUNT>>)

disarm == Send("disarm", <<DISARM>>)

\* variants: soft_trigger() writes another action opcode
soft_trigger_as_arm == Send("soft_trigger", <<ARM>>)

soft_trigger_as_reset_edge_count == Send("soft_trigger", <<RESET_EDGE_COUNT>>)

soft_trigger_as_reset_count == Send("soft_trigger", <<RESET_COUNT>>)

soft_trigger == Send("soft_trigger", <<SOFT_TRIGGER>>)

\* variant: reset_counter writes the ARM opcode
reset_counter_as_arm == Send("reset_counter", <<ARM>>)

\* variant: reset_counter() writes the RESET_EDGE_COUNT opcode
reset_counter_as_reset_edge_count == Send("reset_counter", <<RESET_EDGE_COUNT>>)

reset_counter == Send("reset_counter", <<RESET_COUNT>>)

\* variant: reset_edge_count() writes an edge count target of 0
reset_edge_count_as_target_0 ==
    Send("reset_edge_count", <<SET_EDGE_COUNT_TARGET>> \o Pack_I(0))

\* variant: reset_edge_count() writes the RESET_COUNT opcode
reset_edge_count_as_reset_count == Send("reset_edge_count", <<RESET_COUNT>>)

reset_edge_count == Send("reset_edge_count", <<RESET_EDGE_COUNT>>)

\* variant: the armed_mode setter writes the SET_COUNTER_MODE opcode
set_armed_mode_as_counter_mode(mode) == Send("armed_mode", <<SET_COUNTER_MODE, mode>>)

\* bytes([...]) raises ValueError for a value outside 0..255: nothing is written
set_armed_mode(mode) ==
    Send("armed_mode", IF mode \in 0..255 THEN <<SET_ARMED_MODE, mode>> ELSE <<>>)

\* variant: the counter_mode setter writes the SET_ARMED_MODE opcode
set_counter_mode_as_armed_mode(mode) == Send("counter_mode", <<SET_ARMED_MODE, mode>>)

\* bytes([...]) raises ValueError for a value outside 0..255: nothing is written
set_counter_mode(mode) ==
    Send("counter_mode", IF mode \in 0..255 THEN <<SET_COUNTER_MODE, mode>> ELSE <<>>)

\* variant: the edge_count_target setter writes the DISARM opcode
set_edge_count_target_as_disarm(count) == Send("edge_count_target", <<DISARM>>)

\* the opcode is written first; struct.pack raises for a value outside u32
set_edge_count_target(count) ==
    Send("edge_count_target",
         <<SET_EDGE_COUNT_TARGET>> \o (IF count >= 0 THEN Pack_I(count) ELSE <<>>))

\* variant: the coarse setter packs the payload big-endian ('>I')
set_coarse_big_endian(cycles) ==
    LET p == Pack_I(IF cycles < 1 THEN 1 ELSE cycles)
    IN  Send("coarse", <<SET_COARSE, p[4], p[3], p[2], p[1]>>)

\* variant: the cycle count is written as it was given
set_coarse_unclamped(cycles) ==
    Send("coarse", <<SET_COARSE>> \o (IF cycles >= 0 THEN Pack_I(cycles) ELSE <<>>))

\* a value below 1 is replaced by 1 (with a warning); the opcode and the packed
\* value are written one after the other
set_coarse(cycles) ==
    Send("coarse", <<SET_COARSE>> \o Pack_I(IF cycles < 1 THEN 1 ELSE cycles))

\* a float value as the fraction it is
Fraction(numerator, denominator) == [numerator |-> numerator, denominator |-> denominator]

\* round(x) of Python 3 for x = numerator / denominator, denominator > 0: the
\* nearest integer, a tie going to the even one
Round(numerator, denominator) ==
    LET q == numerator \div denominator
        r == numerator % denominator
    IN  IF 2 * r < denominator THEN q
        ELSE IF 2 * r > denominator THEN q + 1
        ELSE IF q % 2 = 0 THEN q ELSE q + 1

\* variant: the quotient is cut to the integer below
set_delay_ns_floor(nanoseconds) ==
    set_coarse(nanoseconds.numerator \div (nanoseconds.denominator * 5))

\* variant: the coarse setter is bypassed, the cycle count written as computed
set_delay_ns_unclamped(nanoseconds) ==
    set_coarse_unclamped(Round(nanoseconds.numerator, nanoseconds.denominator * 5))

\* the delay_ns setter: coarse_cycles = int(round(nanoseconds / 5.0)), then
\* self.coarse = coarse_cycles; nanoseconds is the fraction numerator/denominator
set_delay_ns(nanoseconds) ==
    set_coarse(Round(nanoseconds.numerator, nanoseconds.denominator * 5))

\* bytes([...]) raises ValueError for a value outside 0..255: nothing is written
set_trigger_mode(mode) ==
    Send("trigger_mode", IF mode \in 0..255 THEN <<SET_TRIGGER_MODE, mode>> ELSE <<>>)

\* the opcode is written first; struct.pack raises for a value outside u32
set_output_trigger_width_cycles(cycles) ==
    Send("output_trigger_width_cycles",
         <<SET_OUTPUT_TRIGGER_WIDTH>> \o (IF cycles >= 0 THEN Pack_I(cycles) ELSE <<>>))

set_soft_trigger_width_cycles(cycles) ==
    Send("soft_trigger_width_cycles",
         <<SET_SOFT_TRIGGER_WIDTH>> \o (IF cycles >= 0 THEN Pack_I(cycles) ELSE <<>>))

\* the output_trigger_width_ns setter: cycles = int(round(nanoseconds / 5.0)), at
\* least 1, assigned to output_trigger_width_cycles
set_output_trigger_width_ns(nanoseconds) ==
    LET cycles == Round(nanoseconds.numerator, nanoseconds.denominator * 5)
    IN  set_output_trigger_width_cycles(IF cycles < 1 THEN 1 ELSE cycles)

\* the soft_trigger_width_ns setter: cycles = int(round(nanoseconds / 5.0)), at
\* least 1, assigned to soft_trigger_width_cycles
set_soft_trigger_width_ns(nanoseconds) ==
    LET cycles == Round(nanoseconds.numerator, nanoseconds.denominator * 5)
    IN  set_soft_trigger_width_cycles(IF cycles < 1 THEN 1 ELSE cycles)

\* variant: the edge setter writes the SET_TRIGGER_MODE opcode
set_edge_as_trigger_mode(edge_type) == Send("edge", <<SET_TRIGGER_MODE, edge_type>>)

\* bytes([...]) raises ValueError for a value outside 0..255: nothing is written
set_edge(edge_type) ==
    Send("edge", IF edge_type \in 0..255 THEN <<SET_EDGE, edge_type>> ELSE <<>>)

(***************************************************************************)
(* Host side: the GET operations.  Each writes its opcode and then blocks  *)
(* in ser.read(n); what it returns is computed from the bytes read.        *)
(***************************************************************************)
\* self.ser.write(bytes([opcode])) followed by the call of self.ser.read(n)
Get(op, opcode, n) ==
    /\ call.pc # "read"
    /\ FrameCount(tx) < MaxFrames
    /\ tx' = tx \o Tag(op, <<opcode>>)
    /\ call' = [op |-> op, pc |-> "read", want |-> n, data |-> <<>>, result |-> None]
    /\ UNCHANGED <<dev, obs, rx>>

get_edge == Get("get_edge", GET_EDGE, 1)

get_coarse == Get("get_coarse", GET_COARSE, 4)

get_status == Get("get_status", GET_STATUS, 6)

\* the delay_ns getter reads self.coarse
get_delay_ns == Get("get_delay_ns", GET_COARSE, 4)

get_output_trigger_width_cycles ==
    Get("get_output_trigger_width_cycles", GET_OUTPUT_TRIGGER_WIDTH, 4)

\* the output_trigger_width_ns getter reads self.output_trigger_width_cycles
get_output_trigger_width_ns ==
    Get("get_output_trigger_width_ns", GET_OUTPUT_TRIGGER_WIDTH, 4)

get_trigger_mode == Get("get_trigger_mode", GET_TRIGGER_MODE, 1)

get_soft_trigger_width_cycles ==
    Get("get_soft_trigger_width_cycles", GET_SOFT_TRIGGER_WIDTH, 4)

\* the soft_trigger_width_ns getter reads self.soft_trigger_width_cycles
get_soft_trigger_width_ns ==
    Get("get_soft_trigger_width_ns", GET_SOFT_TRIGGER_WIDTH, 4)

get_counter_mode == Get("get_counter_mode", GET_COUNTER_MODE, 1)

\* variant: the getter reads a 2-byte response
get_edge_count_target_u16 == Get("get_edge_count_target", GET_EDGE_COUNT_TARGET, 2)

get_edge_count_target == Get("get_edge_count_target", GET_EDGE_COUNT_TARGET, 4)

\* variant: the armed getter reads two bytes
get_armed_two_bytes == Get("get_armed", GET_ARMED, 2)

get_armed == Get("get_armed", GET_ARMED, 1)

get_armed_mode == Get("get_armed_mode", GET_ARMED_MODE, 1)

\* EdgeType(data[0]) and the like: the enum constructor raises ValueError for a
\* value that is not a member
Enum(members, v) == IF v \in members THEN Value(v) ELSE Raise("ValueError")

\* what each getter returns for the bytes its read returned
edge_result(data) == IF Len(data) = 1 THEN Enum(EdgeType, data[1]) ELSE None

\* variant: the coarse getter decodes whatever bytes arrived, zero-extended
coarse_result_partial(data) ==
    IF Len(data) >= 1
    THEN Value(Unpack_I([i \in 1..4 |-> IF i <= Len(data) THEN data[i] ELSE 0]))
    ELSE None

\* variant: only the two low bytes are decoded
coarse_result_u16(data) ==
    IF Len(data) = 4 THEN Value(Unpack_H(SubSeq(data, 1, 2))) ELSE None

coarse_result(data) == IF Len(data) = 4 THEN Value(Unpack_I(data)) ELSE None

\* variant: the two fields decoded in the opposite order, coarse first
status_result_coarse_first(data) ==
    IF Len(data) = 6
    THEN LET coarse_cycles == Unpack_I(SubSeq(data, 1, 4))
             trigger_count == Unpack_H(SubSeq(data, 5, 6))
         IN  Value([trigger_count |-> trigger_count,
                    coarse_cycles |-> coarse_cycles,
                    delay_ns |-> coarse_cycles * 5])
    ELSE None

\* variant: the trigger count is decoded from the first byte alone
status_result_count_u8(data) ==
    IF Len(data) = 6
    THEN LET trigger_count == data[1]
             coarse_cycles == Unpack_I(SubSeq(data, 3, 6))
         IN  Value([trigger_count |-> trigger_count,
                    coarse_cycles |-> coarse_cycles,
                    delay_ns |-> coarse_cycles * 5])
    ELSE None

status_result(data) ==
    IF Len(data) = 6
    THEN LET trigger_count == Unpack_H(SubSeq(data, 1, 2))
             coarse_cycles == Unpack_I(SubSeq(data, 3, 6))
         IN  Value([trigger_count |-> trigger_count,
                    coarse_cycles |-> coarse_cycles,
                    delay_ns |-> coarse_cycles * 5])
    ELSE None

\* variant: a cycle is taken for 10 ns
delay_ns_result_10ns(data) ==
    LET coarse_cycles == coarse_result(data)
    IN  IF coarse_cycles = None THEN None ELSE Value(coarse_cycles.v * 10)

delay_ns_result(data) ==
    LET coarse_cycles == coarse_result(data)
    IN  IF coarse_cycles = None THEN None ELSE Value(coarse_cycles.v * 5)

output_trigger_width_cycles_result(data) ==
    IF Len(data) = 4 THEN Value(Unpack_I(data)) ELSE None

\* cycles * 5.0, or None if the read of the cycles fails
output_trigger_width_ns_result(data) ==
    LET cycles == output_trigger_width_cycles_result(data)
    IN  IF cycles = None THEN None ELSE Value(cycles.v * 5)

trigger_mode_result(data) == IF Len(data) = 1 THEN Enum(TriggerMode, data[1]) ELSE None

soft_trigger_width_cycles_result(data) ==
    IF Len(data) = 4 THEN Value(Unpack_I(data)) ELSE None

\* cycles * 5.0, or None if the read of the cycles fails
soft_trigger_width_ns_result(data) ==
    LET cycles == soft_trigger_width_cycles_result(data)
    IN  IF cycles = None THEN None ELSE Value(cycles.v * 5)

counter_mode_result(data) == IF Len(data) = 1 THEN Enum(CounterMode, data[1]) ELSE None

\* variant: the four bytes are read most significant first
edge_count_target_result_big_endian(data) ==
    IF Len(data) = 4
    THEN Value(Unpack_I(<<data[4], data[3], data[2], data[1]>>))
    ELSE None

edge_count_target_result(data) == IF Len(data) = 4 THEN Value(Unpack_I(data)) ELSE None

\* variant: the byte is read with the opposite sense
armed_result_inverted(data) == IF Len(data) = 1 THEN Value(data[1] = 0) ELSE None

\* bool(data[0])
armed_result(data) == IF Len(data) = 1 THEN Value(data[1] # 0) ELSE None

armed_mode_result(data) == IF Len(data) = 1 THEN Enum(ArmedMode, data[1]) ELSE None

Result(op, data) ==
    CASE op = "get_edge" -> edge_result(data)
      [] op = "get_coarse" -> coarse_result(data)
      [] op = "get_status" -> status_result(data)
      [] op = "get_delay_ns" -> delay_ns_result(data)
      [] op = "get_output_trigger_width_cycles" -> output_trigger_width_cycles_result(data)
      [] op = "get_output_trigger_width_ns" -> output_trigger_width_ns_result(data)
      [] op = "get_trigger_mode" -> trigger_mode_result(data)
      [] op = "get_soft_trigger_width_cycles" -> soft_trigger_width_cycles_result(data)
      [] op = "get_soft_trigger_width_ns" -> soft_trigger_width_ns_result(data)
      [] op = "get_counter_mode" -> counter_mode_result(data)
      [] op = "get_edge_count_target" -> edge_count_target_result(data)
      [] op = "get_armed" -> armed_result(data)
      [] op = "get_armed_mode" -> armed_mode_result(data)

\* self.ser.read(n) returns k bytes and the getter returns to its caller
Read(k) ==
    /\ call.pc = "read"
    /\ k <= Len(rx)
    /\ LET data == SubSeq(rx, 1, k)
       IN  call' = [call EXCEPT !.pc = "done", !.data = data,
                                !.result = Result(call.op, data)]
    /\ rx' = SubSeq(rx, k + 1, Len(rx))
    /\ UNCHANGED <<dev, tx, obs>>

\* all n bytes arrived before the timeout
ReadComplete == Read(call.want)

\* the timeout (1 s) expires with fewer than n bytes received; bytes that
\* arrive later stay in the input buffer of the port
ReadTimeout == \E k \in 0..(call.want - 1) : Read(k)

(***************************************************************************)
(* Callers.  test_single_mode_with_counter (test_armed_mode.py) obtains    *)
(* the trigger count and the armed flag by `status = unit.status` followed *)
(* by `armed = unit.armed`.  Each of the two reads returns the k bytes that *)
(* have arrived: all of them, or fewer at the timeout.                     *)
(***************************************************************************)
\* status = unit.status: GET_STATUS is written and the caller blocks in ser.read(6)
status_then_armed ==
    Get("status_then_armed", GET_STATUS, 6)

\* unit.status returns (None after a short read); armed = unit.armed: GET_ARMED
\* is written and the caller blocks in ser.read(1)
status_then_armed_armed(k) ==
    /\ call.op = "status_then_armed" /\ call.pc = "read" /\ call.want = 6
    /\ k <= Len(rx)
    /\ FrameCount(tx) < MaxFrames
    /\ rx' = SubSeq(rx, k + 1, Len(rx))
    /\ tx' = tx \o Tag("status_then_armed", <<GET_ARMED>>)
    /\ call' = [call EXCEPT !.want = 1, !.data = SubSeq(rx, 1, k),
                            !.result = status_result(SubSeq(rx, 1, k))]
    /\ UNCHANGED <<dev, obs>>

\* unit.armed returns (None after a short read): the caller holds status and armed
status_then_armed_return(k) ==
    /\ call.op = "status_then_armed" /\ call.pc = "read" /\ call.want = 1
    /\ k <= Len(rx)
    /\ rx' = SubSeq(rx, k + 1, Len(rx))
    /\ call' = [call EXCEPT !.pc = "done", !.data = SubSeq(rx, 1, k),
                            !.result = Value([status |-> call.result,
                                              armed |-> armed_result(SubSeq(rx, 1, k))])]
    /\ UNCHANGED <<dev, tx, obs>>

(***************************************************************************)
(* Device step: consume the frame at the head of the link.                 *)
(***************************************************************************)
DeviceStep ==
    /\ tx # <<>>
    /\ LET opcode == tx[1].b
           w == PayloadWidth(opcode)
       IN  /\ Len(tx) >= 1 + w
           /\ LET payload == Bytes(SubSeq(tx, 2, 1 + w))
                  dnew == Exec(dev, opcode, payload)
              IN  /\ InBounds(dnew)
                  /\ dev' = dnew
                  /\ obs' = Norm(ObsFrame(obs, tx[1].op, dev, dnew))
                  /\ tx' = SubSeq(tx, 2 + w, Len(tx))
                  /\ Len(rx) + Len(Respond(dev, opcode)) <= MaxRx
                  /\ \E seen \in AsReported(dev) : rx' = rx \o Respond(seen, opcode)
                  /\ UNCHANGED call

(***************************************************************************)
(* Environment: a transition on the external trigger input.                *)
(***************************************************************************)
ExternalTransition(dir) ==
    /\ InBounds(OnTransition(dev, dir))
    /\ dev' = OnTransition(dev, dir)
    /\ obs' = Norm(ObsTransition(obs, dev, dir))
    /\ UNCHANGED <<tx, rx, call>>

ExternalEdge == \E dir \in {"rise", "fall"} : ExternalTransition(dir)

(***************************************************************************)
(* The legacy controllers: class DelayController of src/delay_control.py   *)
(* and class DelayUnit of src/python/delay_control.py (written             *)
(* LegacyDelayUnit here).  They drive the earlier device generation, which *)
(* has a coarse and a fine delay, an edge type and a trigger counter.      *)
(***************************************************************************)
\* src/delay_control.py: class Command
DelayController_SET_DELAY == 1
DelayController_GET_DELAY == 2
DelayController_SET_EDGE == 3
DelayController_GET_EDGE == 4
DelayController_GET_STATUS == 5
DelayController_RESET_COUNT == 6
DelayController_SET_FINE == 7
DelayController_GET_FINE == 8

\* src/python/delay_control.py: class Command
LegacyDelayUnit_SET_COARSE == 1
LegacyDelayUnit_GET_COARSE == 2
LegacyDelayUnit_SET_EDGE == 3
LegacyDelayUnit_GET_EDGE == 4
LegacyDelayUnit_GET_STATUS == 5
LegacyDelayUnit_RESET_COUNT == 6
LegacyDelayUnit_SET_FINE == 7
LegacyDelayUnit_GET_FINE == 8

\* legacy device: payload width per opcode (section 6)
LegacyPayloadWidth(opcode) ==
    CASE opcode = 1 -> 4
      [] opcode = 7 -> 2
      [] opcode = 3 -> 1
      [] OTHER -> 0

RECURSIVE LegacyFrameCount(_)
LegacyFrameCount(s) ==
    IF s = <<>> THEN 0
    ELSE LET w == 1 + LegacyPayloadWidth(s[1].b)
         IN  IF Len(s) <= w THEN 1
             ELSE 1 + LegacyFrameCount(SubSeq(s, w + 1, Len(s)))

\* legacy device: one complete frame is executed
LegacyExec(d, opcode, payload) ==
    CASE opcode = 1 -> [d EXCEPT !.coarse = Unpack_I(payload)]
      [] opcode = 7 -> [d EXCEPT !.fine = Unpack_H(payload)]
      [] opcode = 3 -> [d EXCEPT !.edge = payload[1]]
      [] opcode = 6 -> [d EXCEPT !.trigger_counter = 0]
      [] OTHER -> d

\* legacy device: the response to a GET command
LegacyRespond(d, opcode) ==
    CASE opcode = 2 -> Pack_I(d.coarse)
      [] opcode = 8 -> Pack_H(d.fine)
      [] opcode = 4 -> <<d.edge>>
      [] opcode = 5 -> Pack_H(d.trigger_counter) \o Pack_I(d.coarse) \o Pack_H(d.fine)
      [] OTHER -> <<>>

LegacyDeviceStep ==
    /\ tx # <<>>
    /\ LET opcode == tx[1].b
           w == LegacyPayloadWidth(opcode)
       IN  /\ Len(tx) >= 1 + w
           /\ Len(rx) + Len(LegacyRespond(dev, opcode)) <= MaxLegacyRx
           /\ dev' = LegacyExec(dev, opcode, Bytes(SubSeq(tx, 2, 1 + w)))
           /\ rx' = rx \o LegacyRespond(dev, opcode)
           /\ tx' = SubSeq(tx, 2 + w, Len(tx))
           /\ UNCHANGED <<obs, call>>

\* the host is not inside a call
NoCall == call.pc \in {"idle", "done"}

\* a legacy operation that writes one frame and returns True
LegacySend(op, bytes) ==
    /\ NoCall
    /\ LegacyFrameCount(tx) < MaxFrames
    /\ tx' = tx \o Tag(op, bytes)
    /\ call' = [op |-> op, pc |-> "done", want |-> 0, data |-> <<>>,
                result |-> Value(TRUE)]
    /\ UNCHANGED <<dev, obs, rx>>

\* a legacy operation that writes one opcode and blocks in ser.read(n)
LegacyGet(op, opcode, n) ==
    /\ NoCall
    /\ LegacyFrameCount(tx) < MaxFrames
    /\ tx' = tx \o Tag(op, <<opcode>>)
    /\ call' = [op |-> op, pc |-> "read", want |-> n, data |-> <<>>, result |-> None]
    /\ UNCHANGED <<dev, obs, rx>>

(***************************************************************************)
(* Legacy host operations.                                                 *)
(***************************************************************************)
\* x / 1000.0: the quotient is kept as the fraction it is
Div1000(x) == [numerator |-> x, denominator |-> 1000]

\* ---- class DelayController ----
\* bytes([...]) raises ValueError for a value outside 0..255: nothing is written
DelayController_set_edge_type(edge_type) ==
    IF edge_type \in 0..255
    THEN LegacySend("DelayController.set_edge_type", <<DelayController_SET_EDGE, edge_type>>)
    ELSE /\ NoCall
         /\ call' = [op |-> "DelayController.set_edge_type", pc |-> "done", want |-> 0,
                     data |-> <<>>, result |-> Raise("ValueError")]
         /\ UNCHANGED <<dev, tx, obs, rx>>

DelayController_reset_counter == LegacySend("DelayController.reset_counter", <<DelayController_RESET_COUNT>>)

DelayController_get_edge_type == LegacyGet("DelayController.get_edge_type", DelayController_GET_EDGE, 1)

DelayController_get_status == LegacyGet("DelayController.get_status", DelayController_GET_STATUS, 8)

DelayController_get_delay == LegacyGet("DelayController.get_delay", DelayController_GET_DELAY, 4)

\* variant: the fine part is the remainder of 1000 ps
DelayController_set_delay_mod_1000(picoseconds) ==
    LET coarse_cycles == picoseconds \div 10000
        fine_ps == picoseconds % 1000
    IN  /\ NoCall
        /\ LegacyFrameCount(tx) < MaxFrames
        /\ IF coarse_cycles >= 0
           THEN /\ tx' = tx \o Tag("DelayController.set_delay", <<DelayController_SET_DELAY>> \o Pack_I(coarse_cycles))
                /\ call' = [op |-> "DelayController.set_delay", pc |-> "fine", want |-> 0, data |-> <<>>,
                            result |-> Value([requested_ps |-> picoseconds,
                                              coarse_cycles |-> coarse_cycles,
                                              fine_ps |-> fine_ps,
                                              actual_ps |-> None])]
           ELSE \* the opcode is on the link when struct.pack('<I', ...) raises
                /\ tx' = tx \o Tag("DelayController.set_delay", <<DelayController_SET_DELAY>>)
                /\ call' = [op |-> "DelayController.set_delay", pc |-> "done", want |-> 0, data |-> <<>>,
                            result |-> Raise("struct.error")]
        /\ UNCHANGED <<dev, obs, rx>>

\* set_delay up to time.sleep(0.01): the coarse frame is written
DelayController_set_delay(picoseconds) ==
    LET coarse_cycles == picoseconds \div 10000
        fine_ps == picoseconds % 10000
    IN  /\ NoCall
        /\ LegacyFrameCount(tx) < MaxFrames
        /\ IF coarse_cycles >= 0
           THEN /\ tx' = tx \o Tag("DelayController.set_delay", <<DelayController_SET_DELAY>> \o Pack_I(coarse_cycles))
                /\ call' = [op |-> "DelayController.set_delay", pc |-> "fine", want |-> 0, data |-> <<>>,
                            result |-> Value([requested_ps |-> picoseconds,
                                              coarse_cycles |-> coarse_cycles,
                                              fine_ps |-> fine_ps,
                                              actual_ps |-> None])]
           ELSE \* the opcode is on the link when struct.pack('<I', ...) raises
                /\ tx' = tx \o Tag("DelayController.set_delay", <<DelayController_SET_DELAY>>)
                /\ call' = [op |-> "DelayController.set_delay", pc |-> "done", want |-> 0, data |-> <<>>,
                            result |-> Raise("struct.error")]
        /\ UNCHANGED <<dev, obs, rx>>

\* set_delay after the sleep: the fine frame is written
DelayController_set_delay_fine ==
    /\ call.pc = "fine" /\ call.op = "DelayController.set_delay"
    /\ tx' = tx \o Tag("DelayController.set_delay",
                        <<DelayController_SET_FINE>> \o Pack_H(call.result.v.fine_ps))
    /\ call' = [call EXCEPT !.pc = "get"]
    /\ UNCHANGED <<dev, obs, rx>>

\* set_delay calls get_delay() for the value it returns as actual_ps
DelayController_set_delay_get ==
    /\ call.pc = "get" /\ call.op = "DelayController.set_delay"
    /\ tx' = tx \o Tag("DelayController.set_delay", <<DelayController_GET_DELAY>>)
    /\ call' = [call EXCEPT !.pc = "read", !.want = 4]
    /\ UNCHANGED <<dev, obs, rx>>

\* variant: the fine response is left out of the sum
DelayController_delay_result_coarse_only(data) ==
    LET coarse_cycles == Unpack_I(SubSeq(data, 1, 4))
    IN  Value(coarse_cycles * 10000)

\* get_delay: the value computed from the coarse and the fine response
DelayController_delay_result(data) ==
    LET coarse_cycles == Unpack_I(SubSeq(data, 1, 4))
        fine_ps == Unpack_H(SubSeq(data, 5, 6))
        steps == fine_ps \div 20
        actual_fine_ps == steps * 20
    IN  Value(coarse_cycles * 10000 + actual_fine_ps)

DelayController_edge_type_result(data) == IF Len(data) = 1 THEN Enum(EdgeType, data[1]) ELSE None

DelayController_status_result(data) ==
    IF Len(data) = 8
    THEN LET trigger_count == Unpack_H(SubSeq(data, 1, 2))
             coarse_cycles == Unpack_I(SubSeq(data, 3, 6))
             fine_ps == Unpack_H(SubSeq(data, 7, 8))
             steps == fine_ps \div 20
             actual_fine_ps == steps * 20
             actual_total_ps == coarse_cycles * 10000 + actual_fine_ps
         IN  Value([trigger_count |-> trigger_count,
                    coarse_cycles |-> coarse_cycles,
                    fine_ps_requested |-> fine_ps,
                    actual_delay_ps |-> actual_total_ps,
                    actual_delay_ns |-> Div1000(actual_total_ps)])
    ELSE None

\* ---- class LegacyDelayUnit ----
\* bytes([...]) raises ValueError for a value outside 0..255: nothing is written
LegacyDelayUnit_set_edge_type(edge_type) ==
    IF edge_type \in 0..255
    THEN LegacySend("LegacyDelayUnit.set_edge_type", <<LegacyDelayUnit_SET_EDGE, edge_type>>)
    ELSE /\ NoCall
         /\ call' = [op |-> "LegacyDelayUnit.set_edge_type", pc |-> "done", want |-> 0,
                     data |-> <<>>, result |-> Raise("ValueError")]
         /\ UNCHANGED <<dev, tx, obs, rx>>

LegacyDelayUnit_reset_counter == LegacySend("LegacyDelayUnit.reset_counter", <<LegacyDelayUnit_RESET_COUNT>>)

LegacyDelayUnit_get_edge_type == LegacyGet("LegacyDelayUnit.get_edge_type", LegacyDelayUnit_GET_EDGE, 1)

LegacyDelayUnit_get_status == LegacyGet("LegacyDelayUnit.get_status", LegacyDelayUnit_GET_STATUS, 8)

LegacyDelayUnit_get_delay == LegacyGet("LegacyDelayUnit.get_delay", LegacyDelayUnit_GET_COARSE, 4)

\* set_delay up to time.sleep(0.01): the coarse frame is written
LegacyDelayUnit_set_delay(picoseconds) ==
    LET coarse_cycles == picoseconds \div 10000
        fine_ps == picoseconds % 10000
    IN  /\ NoCall
        /\ LegacyFrameCount(tx) < MaxFrames
        /\ IF coarse_cycles >= 0
           THEN /\ tx' = tx \o Tag("LegacyDelayUnit.set_delay", <<LegacyDelayUnit_SET_COARSE>> \o Pack_I(coarse_cycles))
                /\ call' = [op |-> "LegacyDelayUnit.set_delay", pc |-> "fine", want |-> 0, data |-> <<>>,
                            result |-> Value([requested_ps |-> picoseconds,
                                              coarse_cycles |-> coarse_cycles,
                                              fine_ps |-> fine_ps,
                                              actual_ps |-> None])]
           ELSE \* the opcode is on the link when struct.pack('<I', ...) raises
                /\ tx' = tx \o Tag("LegacyDelayUnit.set_delay", <<LegacyDelayUnit_SET_COARSE>>)
                /\ call' = [op |-> "LegacyDelayUnit.set_delay", pc |-> "done", want |-> 0, data |-> <<>>,
                            result |-> Raise("struct.error")]
        /\ UNCHANGED <<dev, obs, rx>>

\* set_delay after the sleep: the fine frame is written
LegacyDelayUnit_set_delay_fine ==
    /\ call.pc = "fine" /\ call.op = "LegacyDelayUnit.set_delay"
    /\ tx' = tx \o Tag("LegacyDelayUnit.set_delay",
                        <<LegacyDelayUnit_SET_FINE>> \o Pack_H(call.result.v.fine_ps))
    /\ call' = [call EXCEPT !.pc = "get"]
    /\ UNCHANGED <<dev, obs, rx>>

\* set_delay calls get_delay() for the value it returns as actual_ps
LegacyDelayUnit_set_delay_get ==
    /\ call.pc = "get" /\ call.op = "LegacyDelayUnit.set_delay"
    /\ tx' = tx \o Tag("LegacyDelayUnit.set_delay", <<LegacyDelayUnit_GET_COARSE>>)
    /\ call' = [call EXCEPT !.pc = "read", !.want = 4]
    /\ UNCHANGED <<dev, obs, rx>>

\* get_delay: the value computed from the coarse and the fine response
LegacyDelayUnit_delay_result(data) ==
    LET coarse_cycles == Unpack_I(SubSeq(data, 1, 4))
        fine_ps == Unpack_H(SubSeq(data, 5, 6))
        steps == (fine_ps * 50) \div 1006
        actual_fine_ps == (steps * 2012) \div 100
    IN  Value(coarse_cycles * 10000 + actual_fine_ps)

LegacyDelayUnit_edge_type_result(data) == IF Len(data) = 1 THEN Enum(EdgeType, data[1]) ELSE None

LegacyDelayUnit_status_result(data) ==
    IF Len(data) = 8
    THEN LET trigger_count == Unpack_H(SubSeq(data, 1, 2))
             coarse_cycles == Unpack_I(SubSeq(data, 3, 6))
             fine_ps == Unpack_H(SubSeq(data, 7, 8))
             steps == (fine_ps * 50) \div 1006
             actual_fine_ps == (steps * 2012) \div 100
             actual_total_ps == coarse_cycles * 10000 + actual_fine_ps
         IN  Value([trigger_count |-> trigger_count,
                    coarse_cycles |-> coarse_cycles,
                    fine_ps_requested |-> fine_ps,
                    actual_delay_ps |-> actual_total_ps,
                    actual_delay_ns |-> Div1000(actual_total_ps)])
    ELSE None

\* the operations that read the coarse and then the fine delay
DelayOps ==
    {"DelayController.get_delay", "DelayController.set_delay",
     "LegacyDelayUnit.get_delay", "LegacyDelayUnit.set_delay"}

\* the GET_FINE opcode get_delay writes after the coarse response
GetFineOpcode(op) ==
    IF op \in {"DelayController.get_delay", "DelayController.set_delay"}
    THEN DelayController_GET_FINE ELSE LegacyDelayUnit_GET_FINE

\* what get_delay returns: None after a short read
DelayResult(op, data) ==
    IF Len(data) # 6 THEN None
    ELSE IF op \in {"DelayController.get_delay", "DelayController.set_delay"}
    THEN DelayController_delay_result(data)
    ELSE LegacyDelayUnit_delay_result(data)

\* what the call returns once its last read is over
LegacyResult(c, data) ==
    CASE c.op = "DelayController.get_edge_type" -> DelayController_edge_type_result(data)
      [] c.op = "LegacyDelayUnit.get_edge_type" -> LegacyDelayUnit_edge_type_result(data)
      [] c.op = "DelayController.get_status" -> DelayController_status_result(data)
      [] c.op = "LegacyDelayUnit.get_status" -> LegacyDelayUnit_status_result(data)
      [] c.op \in {"DelayController.get_delay", "LegacyDelayUnit.get_delay"} ->
            DelayResult(c.op, data)
      [] c.op \in {"DelayController.set_delay", "LegacyDelayUnit.set_delay"} ->
            Value([c.result.v EXCEPT !.actual_ps = DelayResult(c.op, data)])

\* the products of the decoded coarse value stay inside the model's integers
CoarseInRange(c, data) ==
    LET at == IF c.op \in DelayOps THEN 1 ELSE 3
    IN  IF Len(data) < at + 3 THEN TRUE
        ELSE Unpack_I(SubSeq(data, at, at + 3)) <= MaxLegacyCoarse

\* self.ser.read(n) returns k bytes to a legacy operation
LegacyRead(k) ==
    /\ call.pc = "read"
    /\ k <= Len(rx)
    /\ rx' = SubSeq(rx, k + 1, Len(rx))
    /\ LET data == call.data \o SubSeq(rx, 1, k)
       IN  /\ CoarseInRange(call, data)
           /\ IF call.op \in DelayOps /\ call.data = <<>> /\ k = call.want
              THEN \* the coarse response is complete: GET_FINE is written
                   /\ tx' = tx \o Tag(call.op, <<GetFineOpcode(call.op)>>)
                   /\ call' = [call EXCEPT !.data = data, !.want = 2]
              ELSE /\ tx' = tx
                   /\ call' = [call EXCEPT !.pc = "done", !.data = data,
                                           !.result = LegacyResult(call, data)]
    /\ UNCHANGED <<dev, obs>>

LegacyReadComplete == LegacyRead(call.want)

LegacyReadTimeout == \E k \in 0..(call.want - 1) : LegacyRead(k)

(***************************************************************************)
(* Specification.                                                          *)
(***************************************************************************)
Init ==
    /\ dev \in [armed : {FALSE},
                armed_mode : ArmedMode,
                counter_mode : CounterMode,
                edge_count_target : 1..MaxTarget,
                edge_counter : {0},
                trigger_counter : {0},
                edge : EdgeType,
                trigger_mode : {EXTERNAL},
                coarse : {1},
                output_trigger_width : {1},
                soft_trigger_width : {1}]
    /\ tx = <<>>
    /\ obs = NewWindow(dev)
    /\ rx = <<>>
    /\ call = Idle

Next ==
    \/ arm
    \/ disarm
    \/ soft_trigger
    \/ reset_counter
    \/ reset_edge_count
    \/ \E mode \in ArmedMode : set_armed_mode(mode)
    \/ \E mode \in CounterMode : set_counter_mode(mode)
    \/ \E count \in 0..MaxTarget : set_edge_count_target(count)
    \/ DeviceStep
    \/ ExternalEdge

Spec == Init /\ [][Next]_vars

(***************************************************************************)
(* The edge type under host control: the device starts on RISING with any  *)
(* modes and the host selects the edge type with the edge setter.          *)
(***************************************************************************)
InitEdge == Init /\ dev.edge = RISING

NextEdge ==
    \/ \E edge_type \in EdgeType : set_edge(edge_type)
    \/ arm
    \/ disarm
    \/ soft_trigger
    \/ DeviceStep
    \/ ExternalEdge

SpecEdge == InitEdge /\ [][NextEdge]_vars

(***************************************************************************)
(* The request/response path: the GET operations against a device at rest  *)
(* in one of two states a run of the host operations can leave it in.      *)
(***************************************************************************)
DeviceAtRest ==
    { [armed |-> FALSE, armed_mode |-> SINGLE, counter_mode |-> CounterMode_DISABLED,
       edge_count_target |-> 1, edge_counter |-> 0, trigger_counter |-> 0,
       edge |-> RISING, trigger_mode |-> EXTERNAL, coarse |-> 1,
       output_trigger_width |-> 1, soft_trigger_width |-> 1],
      [armed |-> TRUE, armed_mode |-> REPEAT, counter_mode |-> CounterMode_ENABLED,
       edge_count_target |-> 3, edge_counter |-> 2, trigger_counter |-> 2,
       edge |-> FALLING, trigger_mode |-> INTERNAL, coarse |-> Unpack_I(<<4, 3, 2, 1>>),
       output_trigger_width |-> 2, soft_trigger_width |-> 4] }

InitHost ==
    /\ dev \in DeviceAtRest
    /\ tx = <<>>
    /\ obs = NewWindow(dev)
    /\ rx = <<>>
    /\ call = Idle

NextHost ==
    \/ get_edge
    \/ get_coarse
    \/ get_status
    \/ get_delay_ns
    \/ get_output_trigger_width_cycles
    \/ get_output_trigger_width_ns
    \/ get_trigger_mode
    \/ get_soft_trigger_width_cycles
    \/ get_soft_trigger_width_ns
    \/ get_counter_mode
    \/ get_edge_count_target
    \/ get_armed
    \/ get_armed_mode
    \/ ReadComplete
    \/ ReadTimeout
    \/ DeviceStep

SpecHost == InitHost /\ [][NextHost]_vars

(***************************************************************************)
(* The coarse setter on the wire: the host sets the coarse delay to values *)
(* that exercise every byte of the payload, the device consumes the frames.*)
(***************************************************************************)
CoarseInputs == {0, 1, 255, 256, 1000, 65535, 65536, 16777216, 16909060, 2147483647}

NextCodec ==
    \/ \E cycles \in CoarseInputs : set_coarse(cycles)
    \/ DeviceStep

SpecCodec == InitHost /\ [][NextCodec]_vars

(***************************************************************************)
(* The legacy controllers against a legacy device at rest or configured by *)
(* set_delay() and set_edge_type().                                        *)
(***************************************************************************)
LegacyDeviceAtRest ==
    { [coarse |-> 0, fine |-> 0, edge |-> NONE, trigger_counter |-> 0],
      [coarse |-> 3, fine |-> 288, edge |-> RISING, trigger_counter |-> 258] }

LegacyPicoseconds == {10020}

InitLegacy ==
    /\ dev \in LegacyDeviceAtRest
    /\ tx = <<>>
    /\ obs = Dirty
    /\ rx = <<>>
    /\ call = Idle

NextLegacy ==
    \/ \E edge_type \in {FALLING} : DelayController_set_edge_type(edge_type)
    \/ DelayController_reset_counter
    \/ DelayController_get_edge_type
    \/ DelayController_get_status
    \/ DelayController_get_delay
    \/ \E picoseconds \in LegacyPicoseconds : DelayController_set_delay(picoseconds)
    \/ DelayController_set_delay_fine
    \/ DelayController_set_delay_get
    \/ \E edge_type \in {FALLING} : LegacyDelayUnit_set_edge_type(edge_type)
    \/ LegacyDelayUnit_reset_counter
    \/ LegacyDelayUnit_get_edge_type
    \/ LegacyDelayUnit_get_status
    \/ LegacyDelayUnit_get_delay
    \/ \E picoseconds \in LegacyPicoseconds : LegacyDelayUnit_set_delay(picoseconds)
    \/ LegacyDelayUnit_set_delay_fine
    \/ LegacyDelayUnit_set_delay_get
    \/ LegacyReadComplete
    \/ LegacyReadTimeout
    \/ LegacyDeviceStep

SpecLegacy == InitLegacy /\ [][NextLegacy]_vars

(***************************************************************************)
(* The status query of the three controllers, each against a device of its *)
(* generation at rest.                                                     *)
(***************************************************************************)
\* the device attached is of the legacy generation
IsLegacy == "fine" \in DOMAIN dev

InitStatus == InitHost \/ InitLegacy

NextStatus ==
    \/ ~IsLegacy /\ get_status
    \/ ~IsLegacy /\ ReadComplete
    \/ ~IsLegacy /\ ReadTimeout
    \/ ~IsLegacy /\ DeviceStep
    \/ IsLegacy /\ DelayController_get_status
    \/ IsLegacy /\ LegacyDelayUnit_get_status
    \/ IsLegacy /\ LegacyReadComplete
    \/ IsLegacy /\ LegacyReadTimeout
    \/ IsLegacy /\ LegacyDeviceStep

SpecStatus == InitStatus /\ [][NextStatus]_vars

(***************************************************************************)
(* Every operation of the three controllers that puts an opcode on the     *)
(* link, each controller against a device of its generation.               *)
(***************************************************************************)
\* the device is in its disarmed state at rest, or is a legacy device at rest
InitTables ==
    \/ InitHost /\ ~dev.armed
    \/ InitLegacy

\* the device answers every GET before the read times out
NextTables ==
    \/ ~IsLegacy /\ arm
    \/ ~IsLegacy /\ disarm
    \/ ~IsLegacy /\ soft_trigger
    \/ ~IsLegacy /\ reset_counter
    \/ ~IsLegacy /\ reset_edge_count
    \/ ~IsLegacy /\ \E cycles \in {1} : set_coarse(cycles)
    \/ ~IsLegacy /\ \E edge_type \in {RISING} : set_edge(edge_type)
    \/ ~IsLegacy /\ \E cycles \in {1} : set_output_trigger_width_cycles(cycles)
    \/ ~IsLegacy /\ \E mode \in {EXTERNAL} : set_trigger_mode(mode)
    \/ ~IsLegacy /\ \E cycles \in {1} : set_soft_trigger_width_cycles(cycles)
    \/ ~IsLegacy /\ \E nanoseconds \in {5} : set_soft_trigger_width_ns(Fraction(nanoseconds, 1))
    \/ ~IsLegacy /\ \E mode \in {CounterMode_DISABLED} : set_counter_mode(mode)
    \/ ~IsLegacy /\ \E count \in {1} : set_edge_count_target(count)
    \/ ~IsLegacy /\ \E mode \in {SINGLE} : set_armed_mode(mode)
    \/ ~IsLegacy /\ get_edge
    \/ ~IsLegacy /\ get_coarse
    \/ ~IsLegacy /\ get_status
    \/ ~IsLegacy /\ get_delay_ns
    \/ ~IsLegacy /\ get_output_trigger_width_cycles
    \/ ~IsLegacy /\ get_output_trigger_width_ns
    \/ ~IsLegacy /\ get_trigger_mode
    \/ ~IsLegacy /\ get_soft_trigger_width_cycles
    \/ ~IsLegacy /\ get_soft_trigger_width_ns
    \/ ~IsLegacy /\ get_counter_mode
    \/ ~IsLegacy /\ get_edge_count_target
    \/ ~IsLegacy /\ get_armed
    \/ ~IsLegacy /\ get_armed_mode
    \/ ~IsLegacy /\ ReadComplete
    \/ ~IsLegacy /\ DeviceStep
    \/ IsLegacy /\ \E edge_type \in {FALLING} : DelayController_set_edge_type(edge_type)
    \/ IsLegacy /\ DelayController_reset_counter
    \/ IsLegacy /\ DelayController_get_edge_type
    \/ IsLegacy /\ DelayController_get_status
    \/ IsLegacy /\ DelayController_get_delay
    \/ IsLegacy /\ \E picoseconds \in LegacyPicoseconds : DelayController_set_delay(picoseconds)
    \/ IsLegacy /\ DelayController_set_delay_fine
    \/ IsLegacy /\ DelayController_set_delay_get
    \/ IsLegacy /\ \E edge_type \in {FALLING} : LegacyDelayUnit_set_edge_type(edge_type)
    \/ IsLegacy /\ LegacyDelayUnit_reset_counter
    \/ IsLegacy /\ LegacyDelayUnit_get_edge_type
    \/ IsLegacy /\ LegacyDelayUnit_get_status
    \/ IsLegacy /\ LegacyDelayUnit_get_delay
    \/ IsLegacy /\ \E picoseconds \in LegacyPicoseconds : LegacyDelayUnit_set_delay(picoseconds)
    \/ IsLegacy /\ LegacyDelayUnit_set_delay_fine
    \/ IsLegacy /\ LegacyDelayUnit_set_delay_get
    \/ IsLegacy /\ LegacyReadComplete
    \/ IsLegacy /\ LegacyDeviceStep

SpecTables == InitTables /\ [][NextTables]_vars

(***************************************************************************)
(* The status/armed read-out of test_armed_mode.py                         *)
(* (test_single_mode_with_counter, test_arm_disarm_during_operation,       *)
(* test_rearm_after_single): the host arms and disarms the device, sends   *)
(* soft triggers and reads status alone, armed alone, or status and then   *)
(* armed, in any order, while edges arrive on the input; a read may time   *)
(* out.  The tests sleep 10 ms after each command and a getter blocks in   *)
(* its read, so the host writes when the device has executed the frames    *)
(* written before.  The modes and the target the tests set before arm()    *)
(* are the ones InitSnapshot starts with.                                  *)
(***************************************************************************)
InitSnapshot ==
    /\ dev \in [armed : {TRUE},
                armed_mode : ArmedMode,
                counter_mode : CounterMode,
                edge_count_target : {1, MaxTarget},
                edge_counter : {0},
                trigger_counter : {0},
                edge : {RISING},
                trigger_mode : {EXTERNAL},
                coarse : {1},
                output_trigger_width : {1},
                soft_trigger_width : {1}]
    /\ tx = <<>>
    /\ obs = NewWindow(dev)
    /\ rx = <<>>
    /\ call = Idle

NextSnapshot ==
    \/ tx = <<>> /\ (arm \/ disarm \/ soft_trigger)
    \/ tx = <<>> /\ (get_status \/ get_armed \/ status_then_armed)
    \/ call.op \in {"get_status", "get_armed"} /\ (ReadComplete \/ ReadTimeout)
    \/ \E k \in 0..6 : tx = <<>> /\ status_then_armed_armed(k)
    \/ \E k \in 0..1 : status_then_armed_return(k)
    \/ DeviceStep
    \/ ExternalEdge

SpecSnapshot == InitSnapshot /\ [][NextSnapshot]_vars

(***************************************************************************)
(* Configuration read-back: the host sets and reads the edge type, the     *)
(* three modes and the edge count target of a device that answers every    *)
(* GET before the read times out.                                          *)
(***************************************************************************)
\* the targets test_counter_mode.py reads back
TargetInputs == {1, 2, 3, 5, 10, 50, 100}

InitReadback == InitHost /\ ~dev.armed

\* the host paces its commands as the tests do (a sleep after each set): it
\* issues one when the device has consumed the one before
NextReadback ==
    \/ tx = <<>> /\ \E edge_type \in EdgeType : set_edge(edge_type)
    \/ tx = <<>> /\ \E mode \in TriggerMode : set_trigger_mode(mode)
    \/ tx = <<>> /\ \E mode \in CounterMode : set_counter_mode(mode)
    \/ tx = <<>> /\ \E mode \in ArmedMode : set_armed_mode(mode)
    \/ tx = <<>> /\ \E count \in TargetInputs : set_edge_count_target(count)
    \/ tx = <<>> /\ get_edge
    \/ tx = <<>> /\ get_trigger_mode
    \/ tx = <<>> /\ get_counter_mode
    \/ tx = <<>> /\ get_armed_mode
    \/ tx = <<>> /\ get_edge_count_target
    \/ ReadComplete
    \/ DeviceStep

SpecReadback == InitReadback /\ [][NextReadback]_vars

(***************************************************************************)
(* Coarse read-back: the host sets and reads the coarse delay of a device  *)
(* that answers every GET before the read times out.                       *)
(***************************************************************************)
\* test_values of test_coarse_delay (test_fpga.py)
CoarseTestValues == {0, 1, 10, 100, 1000, 10000, 65535}

NextCoarse ==
    \/ \E cycles \in CoarseTestValues \cup CoarseInputs : set_coarse(cycles)
    \/ get_coarse
    \/ ReadComplete
    \/ DeviceStep

SpecCoarse == InitReadback /\ [][NextCoarse]_vars


(***************************************************************************)
(* The delay in nanoseconds: the host sets the delay through delay_ns or   *)
(* coarse and reads it back from a device that answers every GET before    *)
(* the read times out.                                                     *)
(***************************************************************************)
\* the whole nanoseconds up to the bound, the largest delay of the tests
\* (test_comprehensive.py), and the values halfway between two cycle counts
DelayNsInputs ==
    {Fraction(n, 1) : n \in (-1..MaxNanoseconds) \cup {1000}}
        \cup {Fraction(n, 2) : n \in {5, 15, 25}}

NextDelay ==
    \/ \E cycles \in -1..2 : set_coarse(cycles)
    \/ \E nanoseconds \in DelayNsInputs : set_delay_ns(nanoseconds)
    \/ get_delay_ns
    \/ get_coarse
    \/ ReadComplete
    \/ DeviceStep

SpecDelay == InitReadback /\ [][NextDelay]_vars

(***************************************************************************)
(* The picosecond delay of DelayController (src/delay_control.py) against  *)
(* a legacy device that answers every GET before the read times out.       *)
(***************************************************************************)
\* multiples of the 20 ps step on both sides of a cycle boundary, up to a coarse
\* part of MaxLegacyCoarse cycles, and values between two steps
PicosecondInputs ==
    {0, 20, 30, 9980, 9999, 10000, 10020, 10030, MaxLegacyCoarse * 10000 + 9980}

NextPicoseconds ==
    \/ \E picoseconds \in PicosecondInputs : DelayController_set_delay(picoseconds)
    \/ DelayController_set_delay_fine
    \/ DelayController_set_delay_get
    \/ DelayController_get_delay
    \/ LegacyReadComplete
    \/ LegacyDeviceStep

SpecPicoseconds == InitLegacy /\ [][NextPicoseconds]_vars

(***************************************************************************)
(* Repeated round trips: a caller of either legacy controller reads the    *)
(* delay with get_delay() and sets the value it got with set_delay(); the  *)
(* device answers every GET before the read times out.                     *)
(***************************************************************************)
\* set_delay(d) for the value d the last get_delay() has returned
DelayController_set_delay_again ==
    /\ call.pc = "done" /\ call.op = "DelayController.get_delay"
    /\ call.result.kind = "value"
    /\ DelayController_set_delay(call.result.v)

LegacyDelayUnit_set_delay_again ==
    /\ call.pc = "done" /\ call.op = "LegacyDelayUnit.get_delay"
    /\ call.result.kind = "value"
    /\ LegacyDelayUnit_set_delay(call.result.v)

NextRepeat ==
    \/ DelayController_get_delay
    \/ DelayController_set_delay_again
    \/ DelayController_set_delay_fine
    \/ DelayController_set_delay_get
    \/ LegacyDelayUnit_get_delay
    \/ LegacyDelayUnit_set_delay_again
    \/ LegacyDelayUnit_set_delay_fine
    \/ LegacyDelayUnit_set_delay_get
    \/ LegacyReadComplete
    \/ LegacyDeviceStep

SpecRepeat == InitLegacy /\ [][NextRepeat]_vars

(***************************************************************************)
(* Timing quantizer of the generation with a signed fine stage (section    *)
(* 4.2): split of a total count of fine steps into coarse cycles and fine  *)
(* steps, with aliasing protection.                                        *)
(***************************************************************************)
\* variant: the fine value is corrected, the coarse count is left as it was
split_without_carry(total_fine_steps, steps_per_cycle, max_fine_steps) ==
    LET coarse == total_fine_steps \div steps_per_cycle
        fine == total_fine_steps % steps_per_cycle
    IN  IF fine > max_fine_steps
        THEN [coarse |-> coarse, fine |-> fine - steps_per_cycle]
        ELSE [coarse |-> coarse, fine |-> fine]

\* steps 2 and 3 of split: coarse = total div N, fine = total mod N, and if
\* fine > M the coarse count is incremented and fine -= N
split(total_fine_steps, steps_per_cycle, max_fine_steps) ==
    LET coarse == total_fine_steps \div steps_per_cycle
        fine == total_fine_steps % steps_per_cycle
    IN  IF fine > max_fine_steps
        THEN [coarse |-> coarse + 1, fine |-> fine - steps_per_cycle]
        ELSE [coarse |-> coarse, fine |-> fine]

\* a caller splits a total of fine steps for a cycle of steps_per_cycle steps and
\* a declared maximum fine magnitude
Quantize(total_fine_steps, steps_per_cycle, max_fine_steps) ==
    /\ call.pc # "read"
    /\ call' = [op |-> "split", pc |-> "done", want |-> 0,
                data |-> <<total_fine_steps, steps_per_cycle, max_fine_steps>>,
                result |-> Value(split(total_fine_steps, steps_per_cycle, max_fine_steps))]
    /\ UNCHANGED <<dev, tx, obs, rx>>

NextSplit ==
    \E steps_per_cycle \in 2..MaxStepsPerCycle :
        \E max_fine_steps \in 0..(steps_per_cycle - 1) :
            \E total_fine_steps \in 0..MaxTotalSteps :
                Quantize(total_fine_steps, steps_per_cycle, max_fine_steps)

SpecSplit == InitReadback /\ [][NextSplit]_vars

(***************************************************************************)
(* The commands of test_delay_width_combination (test_comprehensive.py,    *)
(* test_comprehensive_internal.py): reset_counter, trigger_mode, delay_ns, *)
(* output_trigger_width_ns, the read-back of the three settings,           *)
(* soft_trigger and status, against a device that                          *)
(* earlier commands have left Armed or Disarmed, with the edge type on     *)
(* RISING or FALLING and the edge counting disabled.                       *)
(***************************************************************************)
\* the smallest delays and the largest one of delay_values
DelayTestValues == {5, 10, 1000}

\* width_values of the tests
WidthTestValues == {5, 10, 25, 50, 100}

InitCombination ==
    /\ dev \in [armed : BOOLEAN,
                armed_mode : ArmedMode,
                counter_mode : {CounterMode_DISABLED},
                edge_count_target : {1},
                edge_counter : {0},
                trigger_counter : 0..1,
                edge : {RISING, FALLING},
                trigger_mode : TriggerMode,
                coarse : {1},
                output_trigger_width : {1},
                soft_trigger_width : {1}]
    /\ tx = <<>>
    /\ obs = NewWindow(dev)
    /\ rx = <<>>
    /\ call = Idle

NextCombination ==
    \/ reset_counter
    \/ \E mode \in TriggerMode : set_trigger_mode(mode)
    \/ \E delay_ns \in DelayTestValues : set_delay_ns(Fraction(delay_ns, 1))
    \/ \E width_ns \in WidthTestValues : set_output_trigger_width_ns(Fraction(width_ns, 1))
    \/ get_delay_ns
    \/ get_output_trigger_width_ns
    \/ get_trigger_mode
    \/ soft_trigger
    \/ get_status
    \/ ReadComplete
    \/ DeviceStep

SpecCombination == InitCombination /\ [][NextCombination]_vars

(***************************************************************************)
(* The trigger count of the status query: soft triggers, reset_counter and *)
(* status against an Armed device in REPEAT mode that has fired no trigger *)
(* or LongRun triggers since the last RESET_COUNT.                         *)
(***************************************************************************)
InitCount ==
    /\ dev \in [armed : {TRUE},
                armed_mode : {REPEAT},
                counter_mode : {CounterMode_DISABLED},
                edge_count_target : {1},
                edge_counter : {0},
                trigger_counter : {0, LongRun},
                edge : {RISING},
                trigger_mode : TriggerMode,
                coarse : {1},
                output_trigger_width : {1},
                soft_trigger_width : {1}]
    /\ tx = <<>>
    /\ obs = NewWindow(dev)
    /\ rx = <<>>
    /\ call = Idle

NextCount ==
    \/ soft_trigger
    \/ reset_counter
    \/ get_status
    \/ ReadComplete
    \/ DeviceStep

SpecCount == InitCount /\ [][NextCount]_vars

(***************************************************************************)
(* The setters with any argument: values inside the payload width, negative *)
(* values and values too wide for one byte, each controller against a      *)
(* device of its generation.                                               *)
(***************************************************************************)
NextFrames ==
    \/ ~IsLegacy /\ \E cycles \in {-1, 0, 5} : set_coarse(cycles)
    \/ ~IsLegacy /\ \E nanoseconds \in {-7, 12} : set_delay_ns(Fraction(nanoseconds, 1))
    \/ ~IsLegacy /\ \E cycles \in {-1, 2} : set_output_trigger_width_cycles(cycles)
    \/ ~IsLegacy /\ \E nanoseconds \in {-7, 12} : set_output_trigger_width_ns(Fraction(nanoseconds, 1))
    \/ ~IsLegacy /\ \E cycles \in {-1, 2} : set_soft_trigger_width_cycles(cycles)
    \/ ~IsLegacy /\ \E nanoseconds \in {-7, 12} : set_soft_trigger_width_ns(Fraction(nanoseconds, 1))
    \/ ~IsLegacy /\ \E count \in {-1, 3} : set_edge_count_target(count)
    \/ ~IsLegacy /\ \E edge_type \in {-1, FALLING, 256} : set_edge(edge_type)
    \/ ~IsLegacy /\ \E mode \in {-1, INTERNAL, 256} : set_trigger_mode(mode)
    \/ ~IsLegacy /\ \E mode \in {-1, CounterMode_ENABLED, 256} : set_counter_mode(mode)
    \/ ~IsLegacy /\ \E mode \in {-1, REPEAT, 256} : set_armed_mode(mode)
    \/ ~IsLegacy /\ DeviceStep
    \/ IsLegacy /\ \E edge_type \in {-1, FALLING, 256} : DelayController_set_edge_type(edge_type)
    \/ IsLegacy /\ \E edge_type \in {-1, FALLING, 256} : LegacyDelayUnit_set_edge_type(edge_type)
    \/ IsLegacy /\ \E picoseconds \in {-1, 10020} : DelayController_set_delay(picoseconds)
    \/ IsLegacy /\ DelayController_set_delay_fine
    \/ IsLegacy /\ DelayController_set_delay_get
    \/ IsLegacy /\ \E picoseconds \in {-1, 10020} : LegacyDelayUnit_set_delay(picoseconds)
    \/ IsLegacy /\ LegacyDelayUnit_set_delay_fine
    \/ IsLegacy /\ LegacyDelayUnit_set_delay_get
    \/ IsLegacy /\ LegacyReadComplete
    \/ IsLegacy /\ LegacyDeviceStep

SpecFrames == InitTables /\ [][NextFrames]_vars

(***************************************************************************)
(* Nth-edge counting that goes on: the device is Armed with the edge       *)
(* counting enabled, the host changes edge_count_target at any time, and   *)
(* the trigger input keeps toggling, so that qualifying edges keep         *)
(* arriving.  The field input of dev is the level of the trigger input.    *)
(*                                                                         *)
(* The counters are unsigned and monotonic between resets (section 4.3).   *)
(* They are followed exactly up to MaxEdgeCount and MaxTrig; the value     *)
(* MaxEdgeCount of edge_counter stands for every count from MaxEdgeCount   *)
(* on, and likewise MaxTrig for trigger_counter.  The host sets targets up *)
(* to MaxEdgeCount, so a count above MaxEdgeCount is above every target    *)
(* and equals none until the counter is reset.                             *)
(***************************************************************************)
InitCounting ==
    /\ dev \in [armed : {TRUE},
                armed_mode : ArmedMode,
                counter_mode : {CounterMode_ENABLED},
                edge_count_target : 1..MaxEdgeCount,
                edge_counter : {0},
                trigger_counter : {0},
                edge : {RISING, BOTH},
                trigger_mode : {EXTERNAL},
                coarse : {1},
                output_trigger_width : {1},
                soft_trigger_width : {1},
                input : {"low"}]
    /\ tx = <<>>
    /\ obs = NewWindow(dev)
    /\ rx = <<>>
    /\ call = Idle

\* the counters of d as the model follows them in a run that goes on
Counted(d) ==
    [d EXCEPT !.edge_counter = IF @ > MaxEdgeCount THEN MaxEdgeCount ELSE @,
              !.trigger_counter = IF @ > MaxTrig THEN MaxTrig ELSE @]

\* the trigger input rises from low or falls from high
CountingTransition(dir) ==
    /\ dev.input = IF dir = "rise" THEN "low" ELSE "high"
    /\ dev' = [Counted(OnTransition(dev, dir)) EXCEPT
                  !.input = IF dir = "rise" THEN "high" ELSE "low"]
    /\ obs' = Norm(ObsTransition(obs, dev, dir))
    /\ UNCHANGED <<tx, rx, call>>

CountingEdge == \E dir \in {"rise", "fall"} : CountingTransition(dir)

\* a transition of the trigger input that the edge type qualifies
QualifyingEdge ==
    \E dir \in {"rise", "fall"} : Qualifies(dev.edge, dir) /\ CountingTransition(dir)

NextCounting ==
    \/ \E count \in 0..MaxEdgeCount : set_edge_count_target(count)
    \/ DeviceStep
    \/ CountingEdge

\* the input keeps toggling, so with the edge type RISING or BOTH qualifying
\* edges keep arriving, and the device executes every frame it has received
SpecCounting ==
    InitCounting /\ [][NextCounting]_vars /\ WF_vars(CountingEdge) /\ WF_vars(DeviceStep)

(***************************************************************************)
(* The enum-valued getters against any response: the input buffer of the   *)
(* port holds nothing or one byte of any value when the getter is called,  *)
(* and the read returns that byte, or nothing at the timeout.              *)
(***************************************************************************)
InitDecode ==
    /\ dev \in DeviceAtRest
    /\ tx = <<>>
    /\ obs = NewWindow(dev)
    /\ rx \in {<<>>} \cup {<<b>> : b \in 0..255}
    /\ call = Idle

NextDecode ==
    \/ get_edge
    \/ get_trigger_mode
    \/ get_counter_mode
    \/ get_armed_mode
    \/ ReadComplete
    \/ ReadTimeout
    \/ DeviceStep

SpecDecode == InitDecode /\ [][NextDecode]_vars

(***************************************************************************)
(* Vocabulary of the properties.                                           *)
(***************************************************************************)
\* this step is the device finishing a frame written by host operation op
Processed(op) == tx # <<>> /\ tx[1].op = op /\ Len(tx') < Len(tx)

\* this step delivers a soft-trigger pulse or an external transition
EdgeArrives == Processed("soft_trigger") \/ ExternalEdge

\* this step delivers at least one qualifying edge
QualifyingEdgeArrives ==
    \/ Processed("soft_trigger") /\ dev.edge # NONE
    \/ \E dir \in {"rise", "fall"} : Qualifies(dev.edge, dir) /\ ExternalTransition(dir)

\* this step delivers exactly one qualifying edge
SingleQualifyingEdge ==
    \/ Processed("soft_trigger") /\ dev.edge \in {RISING, FALLING}
    \/ \E dir \in {"rise", "fall"} : Qualifies(dev.edge, dir) /\ ExternalTransition(dir)

\* the frame at the head of the link was written by op; the device has not consumed it yet
Pending(op) == tx # <<>> /\ tx[1].op = op

\* the one-byte payload of the frame at the head of the link
Payload1 == IF Len(tx) >= 2 THEN tx[2].b ELSE -1

\* the host operations that read a response
GetterOps ==
    {"get_edge", "get_coarse", "get_status", "get_delay_ns",
     "get_output_trigger_width_cycles", "get_output_trigger_width_ns", "get_trigger_mode",
     "get_soft_trigger_width_cycles", "get_soft_trigger_width_ns", "get_counter_mode", "get_edge_count_target",
     "get_armed", "get_armed_mode"}

\* this step is a host operation writing bytes to the port
HostWrites == Len(tx') > Len(tx)

\* a GET command is on the link and the device has not answered it yet
Unanswered == \E i \in 1..Len(tx) : tx[i].op \in GetterOps

\* this step is ser.read() returning and the getter returning to its caller
Returns == call.pc = "read" /\ call'.pc = "done"

\* 1 while Armed, 0 while Disarmed
ArmedNow == IF dev.armed THEN 1 ELSE 0

\* the window is clean and armed_mode has been `am` throughout, counter_mode is `cm`
Window(cm, am) ==
    /\ obs.clean /\ ~obs.mixed
    /\ dev.counter_mode = cm /\ dev.armed_mode = am

(***************************************************************************)
(* C1: while the device is Disarmed, an input transition or a soft         *)
(* trigger changes nothing: the state stays Disarmed and neither           *)
(* trigger_counter nor edge_counter advances, whatever the modes and the   *)
(* edge_count_target are.                                                  *)
(***************************************************************************)
C1_DisarmedEdgesInvisible ==
    [][ (~dev.armed /\ EdgeArrives) =>
            /\ ~dev'.armed
            /\ dev'.trigger_counter = dev.trigger_counter
            /\ dev'.edge_counter = dev.edge_counter ]_vars

\* qualifying edges have arrived while Disarmed (counter mode on, target 2)
C1_Witness ==
    /\ ~dev.armed /\ obs.clean /\ obs.idle /\ obs.arms = 0
    /\ dev.counter_mode = CounterMode_ENABLED /\ dev.edge_count_target = 2
    /\ dev.trigger_counter = 0 /\ dev.edge_counter = 0

(***************************************************************************)
(* C2: counter_mode DISABLED, armed_mode REPEAT, window started with       *)
(* trigger_counter 0: after any interleaving of arm(), disarm() and edges  *)
(* trigger_counter is the number of qualifying edges that arrived while    *)
(* Armed; it is 0 before any arm(); and edges never disarm (the device is  *)
(* Armed exactly when more arm() than disarm() calls took effect).         *)
(***************************************************************************)
C2_RepeatCountsArmedEdges ==
    Window(CounterMode_DISABLED, REPEAT) =>
        /\ dev.trigger_counter = obs.n
        /\ (obs.arms = 0 => dev.trigger_counter = 0)
        /\ (dev.armed <=> obs.arms > obs.disarms)

\* edge while Disarmed, arm, edge, disarm, arm, edge: 2 triggers, still Armed
C2_Witness ==
    /\ Window(CounterMode_DISABLED, REPEAT)
    /\ obs.idle /\ obs.arms = 2 /\ obs.disarms = 1
    /\ obs.n = 2 /\ dev.trigger_counter = 2 /\ dev.armed

(***************************************************************************)
(* C3: counter_mode DISABLED, armed_mode SINGLE: a qualifying edge that    *)
(* arrives while Armed increments trigger_counter by exactly 1 and leaves  *)
(* the device Disarmed; trigger_counter then stays until the next arm();   *)
(* every arm() allows exactly one trigger, so k arm()/edge rounds give     *)
(* trigger_counter = k.                                                    *)
(***************************************************************************)
C3_Rounds ==
    Window(CounterMode_DISABLED, SINGLE) =>
        /\ dev.trigger_counter = obs.n
        /\ dev.trigger_counter = obs.arms - obs.disarms - ArmedNow

C3_SingleOneTriggerPerArm ==
    [][ /\ (dev.counter_mode = CounterMode_DISABLED /\ dev.armed_mode = SINGLE
              /\ dev.armed /\ QualifyingEdgeArrives)
            => (dev'.trigger_counter = dev.trigger_counter + 1 /\ ~dev'.armed)
        /\ C3_Rounds' ]_vars

\* two arm()/edge rounds, then another edge while Disarmed
C3_Witness ==
    /\ Window(CounterMode_DISABLED, SINGLE)
    /\ obs.arms = 2 /\ obs.disarms = 0 /\ obs.idle
    /\ dev.trigger_counter = 2 /\ ~dev.armed

(***************************************************************************)
(* C4: counter_mode ENABLED, target T >= 1, armed_mode REPEAT, window      *)
(* started with both counters 0: after n qualifying edges received Armed,  *)
(* trigger_counter = n div T and edge_counter = n mod T.                   *)
(***************************************************************************)
C4_NthEdgeRepeat ==
    (Window(CounterMode_ENABLED, REPEAT) /\ dev.edge_count_target >= 1) =>
        /\ dev.trigger_counter = obs.n \div dev.edge_count_target
        /\ dev.edge_counter = obs.n % dev.edge_count_target

\* T = 2 and 2*T edges: 2 triggers
C4_Witness ==
    /\ Window(CounterMode_ENABLED, REPEAT)
    /\ dev.edge_count_target = 2 /\ obs.n = 4
    /\ dev.trigger_counter = 2 /\ dev.armed /\ obs.disarms = 0

(***************************************************************************)
(* C5: counter_mode ENABLED, target T >= 1, armed_mode SINGLE, armed once  *)
(* with edge_counter 0: the first T-1 edges leave trigger_counter 0 and    *)
(* the device Armed; the T-th edge sets trigger_counter to 1 and disarms;  *)
(* further edges leave trigger_counter at 1.                               *)
(***************************************************************************)
C5_NthEdgeSingle ==
    (/\ Window(CounterMode_ENABLED, SINGLE) /\ dev.edge_count_target >= 1
     /\ obs.arms = 1 /\ obs.disarms = 0) =>
        /\ obs.n <= dev.edge_count_target
        /\ obs.n < dev.edge_count_target =>
              (dev.trigger_counter = 0 /\ dev.armed /\ dev.edge_counter = obs.n)
        /\ obs.n = dev.edge_count_target =>
              (dev.trigger_counter = 1 /\ ~dev.armed /\ dev.edge_counter = 0)

\* T = 3: the third edge has fired and disarmed, more edges arrived afterwards
C5_Witness ==
    /\ Window(CounterMode_ENABLED, SINGLE) /\ dev.edge_count_target = 3
    /\ obs.arms = 1 /\ obs.disarms = 0
    /\ obs.n = 3 /\ obs.idle
    /\ dev.trigger_counter = 1 /\ ~dev.armed

(***************************************************************************)
(* C6: setting armed_mode while Armed changes neither the armed flag nor   *)
(* a counter (only armed_mode, to the value written), and an edge that     *)
(* fires decides disarm/stay by the armed_mode in force when it arrives:   *)
(* SINGLE disarms, REPEAT stays Armed.                                     *)
(***************************************************************************)
C6_ArmedModeSwitchWhileArmed ==
    [][ /\ (Processed("armed_mode") /\ dev.armed)
            => dev' = [dev EXCEPT !.armed_mode = Payload1]
        /\ (QualifyingEdgeArrives /\ dev'.trigger_counter > dev.trigger_counter)
            => (dev'.armed <=> dev.armed_mode = REPEAT) ]_vars

\* armed once; the first trigger left the device Armed (REPEAT), armed_mode was
\* then changed to SINGLE and the second trigger disarmed
C6_Witness ==
    /\ obs.clean /\ obs.mixed /\ dev.counter_mode = CounterMode_DISABLED
    /\ dev.armed_mode = SINGLE /\ ~dev.armed
    /\ obs.arms = 1 /\ obs.disarms = 0 /\ obs.n = 2 /\ dev.trigger_counter = 2

(***************************************************************************)
(* C7: setting counter_mode while Armed leaves edge_counter,               *)
(* trigger_counter and the armed flag unchanged; an edge handled in        *)
(* DISABLED mode does not modify edge_counter; and in ENABLED mode an      *)
(* edge received Armed fires exactly when edge_counter + 1 equals          *)
(* edge_count_target, whatever happened to the modes before.               *)
(***************************************************************************)
C7_CounterModeSwitchKeepsCount ==
    [][ /\ (Processed("counter_mode") /\ dev.armed)
            => dev' = [dev EXCEPT !.counter_mode = Payload1]
        /\ (dev.counter_mode = CounterMode_DISABLED /\ EdgeArrives)
            => dev'.edge_counter = dev.edge_counter
        /\ (dev.counter_mode = CounterMode_ENABLED /\ dev.armed /\ SingleQualifyingEdge)
            => /\ dev'.trigger_counter \in {dev.trigger_counter, dev.trigger_counter + 1}
               /\ dev'.trigger_counter = dev.trigger_counter + 1
                    <=> dev.edge_counter + 1 = dev.edge_count_target ]_vars

\* a partial count is held while the device is Armed in DISABLED mode and has fired there
C7_Witness ==
    /\ dev.counter_mode = CounterMode_DISABLED /\ dev.armed
    /\ dev.edge_counter = 2 /\ dev.edge_count_target = 3
    /\ dev.trigger_counter >= 1 /\ tx = <<>>

(***************************************************************************)
(* C8: reset_edge_count() sets edge_counter to 0 in every state, Armed or  *)
(* Disarmed, and leaves trigger_counter and the armed flag (and the        *)
(* configuration) unchanged; counting then restarts: in ENABLED mode each  *)
(* edge received Armed either completes the target (trigger, count back    *)
(* to 0) or adds 1 to the count, so T edges are needed from count 0.       *)
(***************************************************************************)
C8_ResetEdgeCount ==
    [][ /\ Processed("reset_edge_count") => dev' = [dev EXCEPT !.edge_counter = 0]
        /\ (dev.counter_mode = CounterMode_ENABLED /\ dev.armed /\ SingleQualifyingEdge)
            => IF dev.edge_counter + 1 = dev.edge_count_target
               THEN dev'.trigger_counter = dev.trigger_counter + 1 /\ dev'.edge_counter = 0
               ELSE dev'.trigger_counter = dev.trigger_counter
                    /\ dev'.edge_counter = dev.edge_counter + 1 ]_vars

\* the device is about to execute reset_edge_count() with a partial count, Armed
C8_Witness ==
    /\ Pending("reset_edge_count") /\ dev.armed
    /\ dev.counter_mode = CounterMode_ENABLED /\ dev.edge_count_target = 3
    /\ dev.edge_counter = 2 /\ dev.trigger_counter >= 1

(***************************************************************************)
(* C9: reset_counter() (RESET_COUNT) leaves trigger_counter at 0 in every  *)
(* state and changes nothing else: the armed flag, armed_mode,             *)
(* counter_mode and edge_counter keep their values.                        *)
(***************************************************************************)
C9_ResetTriggerCount ==
    [][ Processed("reset_counter") => dev' = [dev EXCEPT !.trigger_counter = 0] ]_vars

\* the device is about to execute reset_counter() with both counters non-zero, Armed
C9_Witness ==
    /\ Pending("reset_counter") /\ dev.armed
    /\ dev.trigger_counter = MaxTrig /\ dev.edge_counter >= 1

(***************************************************************************)
(* C10: arm() is idempotent: executed while Armed it leaves the whole      *)
(* device state unchanged, in every state it leaves the device as one      *)
(* arm() does (Armed, nothing else changed), and one edge that follows in  *)
(* REPEAT/DISABLED mode gives exactly one trigger.                         *)
(***************************************************************************)
C10_ArmIdempotent ==
    [][ /\ (Processed("arm") /\ dev.armed) => dev' = dev
        /\ Processed("arm") => dev' = [dev EXCEPT !.armed = TRUE]
        /\ (dev.armed /\ dev.armed_mode = REPEAT /\ dev.counter_mode = CounterMode_DISABLED
              /\ SingleQualifyingEdge)
            => dev'.trigger_counter = dev.trigger_counter + 1 ]_vars

\* the device is about to execute a second arm(): it is Armed by the one arm() of
\* the window and no edge has arrived yet
C10_Witness ==
    /\ Pending("arm") /\ dev.armed /\ Window(CounterMode_DISABLED, REPEAT)
    /\ obs.arms = 1 /\ obs.disarms = 0 /\ obs.n = 0

(***************************************************************************)
(* C11: disarm() is idempotent: executed while Disarmed it leaves the      *)
(* whole device state unchanged, in every state it leaves the device as    *)
(* one disarm() does (Disarmed, nothing else changed), and a qualifying    *)
(* edge that follows while still Disarmed produces no trigger.             *)
(***************************************************************************)
C11_DisarmIdempotent ==
    [][ /\ (Processed("disarm") /\ ~dev.armed) => dev' = dev
        /\ Processed("disarm") => dev' = [dev EXCEPT !.armed = FALSE]
        /\ (~dev.armed /\ QualifyingEdgeArrives)
            => dev'.trigger_counter = dev.trigger_counter ]_vars

\* the device is about to execute a second disarm(): the first one found it Armed
\* after it had fired, and it is Disarmed now
C11_Witness ==
    /\ Pending("disarm") /\ ~dev.armed /\ Window(CounterMode_DISABLED, REPEAT)
    /\ obs.arms = 1 /\ obs.disarms = 1 /\ dev.trigger_counter >= 1

(***************************************************************************)
(* C12: disarm() resets no counters.  counter_mode ENABLED, target T,      *)
(* armed_mode REPEAT, window started with both counters 0 and at least one *)
(* disarm() took effect: while fewer than T qualifying edges have been     *)
(* received Armed (before or after the disarm()/arm() cycle) no trigger    *)
(* has fired and edge_counter is their number; with the T-th such edge     *)
(* the first trigger fires.                                                *)
(***************************************************************************)
C12_DisarmKeepsEdgeCount ==
    (/\ Window(CounterMode_ENABLED, REPEAT) /\ dev.edge_count_target >= 1
     /\ obs.disarms >= 1 /\ obs.n <= dev.edge_count_target) =>
        /\ obs.n < dev.edge_count_target
              => (dev.trigger_counter = 0 /\ dev.edge_counter = obs.n)
        /\ obs.n = dev.edge_count_target
              => (dev.trigger_counter = 1 /\ dev.edge_counter = 0)

\* T = 3: two edges were received Armed, disarm() took effect, an edge arrived
\* while Disarmed, and the device is about to be armed again with the count at 2
C12_Witness ==
    /\ Window(CounterMode_ENABLED, REPEAT) /\ dev.edge_count_target = 3
    /\ Pending("arm") /\ ~dev.armed /\ obs.arms = 1 /\ obs.disarms = 1
    /\ obs.idle /\ obs.n = 2 /\ dev.edge_counter = 2 /\ dev.trigger_counter = 0

(***************************************************************************)
(* C13: the edge setter selects the edge type; while it is NONE no input   *)
(* transition and no soft-trigger pulse changes the device state, Armed or *)
(* not; with RISING or FALLING a soft-trigger pulse received Armed counts  *)
(* as exactly one qualifying edge: one trigger in DISABLED mode, one step  *)
(* of the edge count in ENABLED mode.                                      *)
(***************************************************************************)
C13_EdgeTypeQualification ==
    [][ /\ Processed("edge") => dev' = [dev EXCEPT !.edge = Payload1]
        /\ (dev.edge = NONE /\ EdgeArrives) => dev' = dev
        /\ (dev.edge \in {RISING, FALLING} /\ dev.armed /\ Processed("soft_trigger"))
            => IF dev.counter_mode = CounterMode_DISABLED
               THEN dev'.trigger_counter = dev.trigger_counter + 1
                    /\ dev'.edge_counter = dev.edge_counter
               ELSE IF dev.edge_counter + 1 = dev.edge_count_target
               THEN dev'.trigger_counter = dev.trigger_counter + 1
                    /\ dev'.edge_counter = 0
               ELSE dev'.trigger_counter = dev.trigger_counter
                    /\ dev'.edge_counter = dev.edge_counter + 1 ]_vars

\* the device has fired on RISING, the host has then selected NONE, and a
\* soft-trigger pulse is about to be delivered while Armed
C13_Witness ==
    /\ Pending("soft_trigger") /\ dev.edge = NONE /\ dev.armed
    /\ dev.trigger_counter >= 1

(***************************************************************************)
(* C14 as stated: neither counter ever decreases except as the direct      *)
(* effect of its reset command (reset_edge_count() for edge_counter,       *)
(* reset_counter() for trigger_counter).                                   *)
(***************************************************************************)
C14_Original ==
    [][ /\ dev'.edge_counter < dev.edge_counter => Processed("reset_edge_count")
        /\ dev'.trigger_counter < dev.trigger_counter => Processed("reset_counter") ]_vars

(***************************************************************************)
(* C14 amended: trigger_counter never decreases except by reset_counter(), *)
(* which leaves it at 0; edge_counter never decreases except by            *)
(* reset_edge_count() or by an edge that fires in ENABLED mode (the fire   *)
(* restarts the count from 0); arm, disarm and mode changes never lower a  *)
(* counter.                                                                *)
(***************************************************************************)
C14_CountersMonotonic ==
    [][ /\ dev'.edge_counter < dev.edge_counter
            => \/ Processed("reset_edge_count") /\ dev'.edge_counter = 0
               \/ /\ EdgeArrives /\ dev.armed /\ dev.counter_mode = CounterMode_ENABLED
                  /\ dev'.trigger_counter = dev.trigger_counter + 1
        /\ dev'.trigger_counter < dev.trigger_counter
            => Processed("reset_counter") /\ dev'.trigger_counter = 0 ]_vars

\* T = 3, REPEAT: the third edge received Armed has fired and edge_counter is back at 0
C14_Witness ==
    /\ Window(CounterMode_ENABLED, REPEAT) /\ dev.edge_count_target = 3
    /\ obs.n = 3 /\ obs.disarms = 0 /\ dev.armed
    /\ dev.trigger_counter = 1 /\ dev.edge_counter = 0

(***************************************************************************)
(* C15: at most one command whose response has not been fully read is      *)
(* outstanding: no operation writes a command while an earlier GET is      *)
(* unanswered or bytes of its response are unread, also after a read that  *)
(* timed out short.                                                        *)
(***************************************************************************)
C15_OneOutstanding ==
    [][ HostWrites => (rx = <<>> /\ ~Unanswered) ]_vars

(***************************************************************************)
(* C16: a GET operation whose read returns fewer bytes than the response   *)
(* width returns None, which no read of the full width returns, whatever   *)
(* the partial bytes are, and it writes nothing more to the port.          *)
(***************************************************************************)
C16_ShortReadReported ==
    [][ Returns =>
          /\ tx' = tx
          /\ call'.op = call.op /\ call.op \in GetterOps
          /\ Len(call'.data) < call.want => call'.result = None
          /\ Len(call'.data) = call.want => call'.result # None ]_vars

\* three of the four bytes of the coarse register arrived before the timeout
C16_Witness ==
    /\ call.pc = "done" /\ call.op = "get_coarse"
    /\ call.data = <<4, 3, 2>> /\ call.result = None /\ rx = <<1>>

(***************************************************************************)
(* C17: an out-of-range configuration value is rejected before any byte    *)
(* of the command is written: the edge_count_target setter called with 0   *)
(* or with a negative count writes nothing to the port.                    *)
(***************************************************************************)
C17_OutOfRangeRejected ==
    [][ \A count \in -1..0 : set_edge_count_target(count) => tx' = tx ]_vars

(***************************************************************************)
(* C18: setting the coarse delay to c >= 1 cycles appends to the link      *)
(* exactly five bytes: the opcode 0x01 and the four bytes of c, least      *)
(* significant first; c = 1000 gives 01 E8 03 00 00.                       *)
(***************************************************************************)
C18_SetCoarseWire ==
    [][ \A c \in CoarseInputs : (c >= 1 /\ set_coarse(c)) =>
          /\ Len(tx') = Len(tx) + 5
          /\ SubSeq(tx', 1, Len(tx)) = tx
          /\ LET sent == Bytes(SubSeq(tx', Len(tx) + 1, Len(tx'))) IN
                /\ sent[1] = 1
                /\ \A i \in 2..5 : sent[i] \in 0..255
                /\ sent[2] + 256 * (sent[3] + 256 * (sent[4] + 256 * sent[5])) = c
                /\ c = 1000 => sent = <<1, 232, 3, 0, 0>> ]_vars

\* the frame of coarse = 1000 is on the link
C18_Witness ==
    /\ Pending("coarse") /\ Bytes(tx) = <<1, 232, 3, 0, 0>>

(***************************************************************************)
(* C19: in each opcode table (core.Command and the Command tables of the   *)
(* two legacy controllers) all opcode values are distinct; every SET       *)
(* opcode is paired with exactly one GET opcode, the setter writes the     *)
(* SET opcode followed by a payload of the field's width and the getter    *)
(* that writes the GET opcode reads a response of that same width; the     *)
(* action opcodes ARM, DISARM, SOFT_TRIGGER, RESET_COUNT and               *)
(* RESET_EDGE_COUNT are written with no payload.                           *)
(***************************************************************************)
CoreTable ==
    <<SET_COARSE, GET_COARSE, SET_EDGE, GET_EDGE, GET_STATUS, RESET_COUNT, SOFT_TRIGGER,
      SET_OUTPUT_TRIGGER_WIDTH, GET_OUTPUT_TRIGGER_WIDTH, SET_TRIGGER_MODE,
      GET_TRIGGER_MODE, SET_SOFT_TRIGGER_WIDTH, GET_SOFT_TRIGGER_WIDTH,
      SET_COUNTER_MODE, GET_COUNTER_MODE, SET_EDGE_COUNT_TARGET, GET_EDGE_COUNT_TARGET,
      RESET_EDGE_COUNT, ARM, DISARM, SET_ARMED_MODE, GET_ARMED_MODE, GET_ARMED>>

DelayControllerTable ==
    <<DelayController_SET_DELAY, DelayController_GET_DELAY, DelayController_SET_EDGE,
      DelayController_GET_EDGE, DelayController_GET_STATUS, DelayController_RESET_COUNT,
      DelayController_SET_FINE, DelayController_GET_FINE>>

LegacyDelayUnitTable ==
    <<LegacyDelayUnit_SET_COARSE, LegacyDelayUnit_GET_COARSE, LegacyDelayUnit_SET_EDGE,
      LegacyDelayUnit_GET_EDGE, LegacyDelayUnit_GET_STATUS, LegacyDelayUnit_RESET_COUNT,
      LegacyDelayUnit_SET_FINE, LegacyDelayUnit_GET_FINE>>

\* no two members of the table have the same value
Distinct(table) == \A i, j \in 1..Len(table) : table[i] = table[j] => i = j

\* the SET opcode, its GET opcode and the width of the field, per table
CorePairs ==
    { <<SET_COARSE, GET_COARSE, 4>>, <<SET_EDGE, GET_EDGE, 1>>,
      <<SET_OUTPUT_TRIGGER_WIDTH, GET_OUTPUT_TRIGGER_WIDTH, 4>>,
      <<SET_TRIGGER_MODE, GET_TRIGGER_MODE, 1>>,
      <<SET_SOFT_TRIGGER_WIDTH, GET_SOFT_TRIGGER_WIDTH, 4>>,
      <<SET_COUNTER_MODE, GET_COUNTER_MODE, 1>>,
      <<SET_EDGE_COUNT_TARGET, GET_EDGE_COUNT_TARGET, 4>>,
      <<SET_ARMED_MODE, GET_ARMED_MODE, 1>> }

DelayControllerPairs ==
    { <<DelayController_SET_DELAY, DelayController_GET_DELAY, 4>>,
      <<DelayController_SET_EDGE, DelayController_GET_EDGE, 1>>,
      <<DelayController_SET_FINE, DelayController_GET_FINE, 2>> }

LegacyDelayUnitPairs ==
    { <<LegacyDelayUnit_SET_COARSE, LegacyDelayUnit_GET_COARSE, 4>>,
      <<LegacyDelayUnit_SET_EDGE, LegacyDelayUnit_GET_EDGE, 1>>,
      <<LegacyDelayUnit_SET_FINE, LegacyDelayUnit_GET_FINE, 2>> }

\* each SET opcode occurs in one pair and so does each GET opcode
OneToOne(pairs) == \A p, q \in pairs : (p[1] = q[1] \/ p[2] = q[2]) => p = q

DelayControllerOps ==
    {"DelayController.set_edge_type", "DelayController.reset_counter",
     "DelayController.get_edge_type", "DelayController.get_status",
     "DelayController.get_delay", "DelayController.set_delay"}

\* the bytes this step has put on the link follow the table of the controller
WritesFollow(pairs, actions) ==
    LET sent == Bytes(SubSeq(tx', Len(tx) + 1, Len(tx')))
    IN  /\ \A p \in pairs :
              /\ sent[1] = p[1] => Len(sent) = 1 + p[3]
              /\ sent[1] = p[2] => /\ Len(sent) = 1
                                   /\ call'.pc = "read" /\ call'.want = p[3]
        /\ sent[1] \in actions => Len(sent) = 1

C19_OpcodeTables ==
    [][ /\ Distinct(CoreTable) /\ Len(CoreTable) = 23
        /\ Distinct(DelayControllerTable) /\ Len(DelayControllerTable) = 8
        /\ Distinct(LegacyDelayUnitTable) /\ Len(LegacyDelayUnitTable) = 8
        /\ OneToOne(CorePairs) /\ OneToOne(DelayControllerPairs)
        /\ OneToOne(LegacyDelayUnitPairs)
        /\ HostWrites =>
              IF ~IsLegacy
              THEN WritesFollow(CorePairs,
                                {ARM, DISARM, SOFT_TRIGGER, RESET_COUNT, RESET_EDGE_COUNT})
              ELSE IF call'.op \in DelayControllerOps
              THEN WritesFollow(DelayControllerPairs, {DelayController_RESET_COUNT})
              ELSE WritesFollow(LegacyDelayUnitPairs, {LegacyDelayUnit_RESET_COUNT}) ]_vars

\* the edge_count_target getter has returned the 4-byte value and the setter has
\* put its opcode and a 4-byte payload on the link
C19_Witness ==
    /\ call.pc = "done" /\ call.op = "get_edge_count_target"
    /\ Len(call.data) = 4 /\ call.result = Value(1)
    /\ Pending("edge_count_target")
    /\ Bytes(tx) = <<SET_EDGE_COUNT_TARGET, 1, 0, 0, 0>>

(***************************************************************************)
(* C20 as stated: a status response of the expected width is returned      *)
(* with every field of the layout trigger_count, coarse_delay, [fine],     *)
(* armed, trigger_mode, armed_mode, counter_mode, edge_type decoded.       *)
(***************************************************************************)
StatusOps == {"get_status", "DelayController.get_status", "LegacyDelayUnit.get_status"}

\* a status query has returned after reading a response of the expected width
StatusDecoded ==
    /\ call.pc = "done" /\ call.op \in StatusOps
    /\ Len(call.data) = call.want

C20_Original ==
    StatusDecoded =>
        /\ call.result.kind = "value"
        /\ {"trigger_count", "coarse_cycles", "armed", "trigger_mode",
            "armed_mode", "counter_mode", "edge_type"} \subseteq DOMAIN call.result.v

(***************************************************************************)
(* C20: a status response of exactly the expected width (6 bytes for       *)
(* core.DelayUnit, 8 bytes for the two legacy controllers) is decoded as   *)
(* a flat little-endian concatenation with no padding: trigger_count       *)
(* (u16) at offset 0, coarse (u32) at offset 2 and, in the legacy          *)
(* controllers, the fine value (u16) at offset 6. These are the only       *)
(* device fields read and returned, next to the delay derived from them;   *)
(* armed, trigger_mode, armed_mode, counter_mode and edge_type are not     *)
(* part of the status read-out.                                            *)
(***************************************************************************)
C20_StatusLayout ==
    StatusDecoded =>
        LET d == call.data
            r == call.result
        IN  /\ r.kind = "value"
            /\ r.v.trigger_count = d[1] + 256 * d[2]
            /\ r.v.coarse_cycles = d[3] + 256 * (d[4] + 256 * (d[5] + 256 * d[6]))
            /\ IF call.op = "get_status"
               THEN /\ call.want = 6
                    /\ DOMAIN r.v = {"trigger_count", "coarse_cycles", "delay_ns"}
               ELSE /\ call.want = 8
                    /\ r.v.fine_ps_requested = d[7] + 256 * d[8]
                    /\ DOMAIN r.v = {"trigger_count", "coarse_cycles", "fine_ps_requested",
                                     "actual_delay_ps", "actual_delay_ns"}

\* core status has returned the counters of a device that has fired twice
C20_Witness ==
    /\ StatusDecoded /\ call.op = "get_status"
    /\ call.data = <<2, 0, 4, 3, 2, 1>>
    /\ call.result.v.trigger_count = 2
    /\ call.result.v.coarse_cycles = 16909060

(***************************************************************************)
(* C21 as stated: the trigger_count and the armed flag a caller obtains    *)
(* together belong to one and the same device state, even when qualifying  *)
(* edges arrive between the host's commands.                               *)
(*                                                                         *)
(* From the answer to GET_STATUS to the answer to GET_ARMED the caller is  *)
(* blocked in its reads, every frame written before has been processed,    *)
(* and only edges on the input change the device: the trigger count grows  *)
(* and the armed flag changes only when a trigger fires.  So the pair is a *)
(* state the device was in exactly if the count is still the one status    *)
(* returned or the device is still Armed when it answers GET_ARMED.        *)
(***************************************************************************)
\* the caller holds the status and the armed flag it has read
Observed == call.op = "status_then_armed" /\ call.pc = "done"

\* the device answers the GET_STATUS of the caller; nothing is unread
AnswersStatus ==
    /\ tx # <<>> /\ tx[1].op = "status_then_armed" /\ tx[1].b = GET_STATUS
    /\ tx' = Tail(tx)
    /\ rx = <<>>

\* the device answers the GET_ARMED of the caller, whose status read has
\* returned a full response in time; nothing is unread
AnswersArmed ==
    /\ tx # <<>> /\ tx[1].op = "status_then_armed" /\ tx[1].b = GET_ARMED
    /\ tx' = Tail(tx)
    /\ call.op = "status_then_armed" /\ call.pc = "read" /\ call.want = 1
    /\ call.result.kind = "value"
    /\ rx = <<>>

C21_Original ==
    [][ AnswersArmed =>
            \/ call.result.v.trigger_count = dev.trigger_counter
            \/ dev.armed ]_vars

(***************************************************************************)
(* C21: the trigger_count and the coarse cycles returned by one status     *)
(* call are decoded from one response and belong to the device state at    *)
(* the moment GET_STATUS is answered.  The armed flag (like each mode) is  *)
(* read by a separate GET command, written after status has returned and   *)
(* answered at the state the device has then: the count of that state is   *)
(* the one status returned or a higher one.  The two values belong to no   *)
(* single device state exactly when a trigger has fired in SINGLE mode     *)
(* between the two answers: the caller then obtains the count from before  *)
(* the trigger together with armed = False.  All reads complete in time.   *)
(***************************************************************************)
C21_StatusThenArmed ==
    [][ /\ AnswersStatus =>
              LET status == status_result(rx')
              IN  /\ status.kind = "value"
                  /\ DOMAIN status.v = {"trigger_count", "coarse_cycles", "delay_ns"}
                  /\ status.v.trigger_count = dev.trigger_counter
                  /\ status.v.coarse_cycles = dev.coarse
        /\ AnswersArmed =>
              /\ call.result.v.trigger_count <= dev.trigger_counter
              /\ call.result.v.coarse_cycles = dev.coarse
              /\ rx' = <<IF dev.armed THEN 1 ELSE 0>>
              /\ (call.result.v.trigger_count < dev.trigger_counter /\ ~dev.armed) =>
                     dev.armed_mode = SINGLE
        /\ (call.op = "status_then_armed" /\ call.want = 1 /\ Returns
               /\ Len(call'.data) = 1) =>
              /\ call'.result.v.status = call.result
              /\ call'.result.v.armed.v = (call'.data[1] # 0) ]_vars

\* the trigger has fired between the two queries
C21_Witness ==
    /\ Observed
    /\ call.result.v.status.kind = "value" /\ call.result.v.armed.kind = "value"
    /\ call.result.v.status.v.trigger_count = 0
    /\ call.result.v.armed.v = FALSE
    /\ dev.trigger_counter = 1 /\ dev.armed_mode = SINGLE
    /\ rx = <<>>

(***************************************************************************)
(* C22: configuration read-back round trip.  For each of edge,             *)
(* trigger_mode, counter_mode, armed_mode and edge_count_target: the frame *)
(* the setter writes for value v makes the device store v, the field       *)
(* changes only when the device processes a frame of its setter, and the   *)
(* getter returns the value the device holds.  So a GET issued after a     *)
(* fully processed SET of v, with no other SET of the field in between,    *)
(* returns v, for every EdgeType, TriggerMode, CounterMode and ArmedMode   *)
(* value and every target in {1, 2, 3, 5, 10, 50, 100}.                    *)
(***************************************************************************)
ReadbackFields == {"edge", "trigger_mode", "counter_mode", "armed_mode", "edge_count_target"}

\* the getter operation of a field
GetterOf(field) ==
    CASE field = "edge" -> "get_edge"
      [] field = "trigger_mode" -> "get_trigger_mode"
      [] field = "counter_mode" -> "get_counter_mode"
      [] field = "armed_mode" -> "get_armed_mode"
      [] field = "edge_count_target" -> "get_edge_count_target"

\* the device state after it has processed the frame this step has written
AfterFrameSent ==
    LET sent == Bytes(SubSeq(tx', Len(tx) + 1, Len(tx')))
    IN  Exec(dev, sent[1], SubSeq(sent, 2, Len(sent)))

C22_ConfigReadback ==
    [][ /\ \A v \in EdgeType : set_edge(v) => AfterFrameSent.edge = v
        /\ \A v \in TriggerMode : set_trigger_mode(v) => AfterFrameSent.trigger_mode = v
        /\ \A v \in CounterMode : set_counter_mode(v) => AfterFrameSent.counter_mode = v
        /\ \A v \in ArmedMode : set_armed_mode(v) => AfterFrameSent.armed_mode = v
        /\ \A v \in TargetInputs :
              set_edge_count_target(v) => AfterFrameSent.edge_count_target = v
        /\ \A field \in ReadbackFields :
              /\ dev'[field] # dev[field] => tx # <<>> /\ tx[1].op = field
              /\ (Returns /\ call.op = GetterOf(field)) =>
                    call'.result = Value(dev[field]) ]_vars

\* the target 100 has been set, processed and read back
C22_Witness ==
    /\ call.pc = "done" /\ call.op = "get_edge_count_target"
    /\ call.result = Value(100)
    /\ dev.edge_count_target = 100
    /\ tx = <<>> /\ rx = <<>>

(***************************************************************************)
(* C23 as stated: after unit.coarse = c, reading unit.coarse returns c,    *)
(* for every c in the tested set {0, 1, 10, 100, 1000, 10000, 65535}.      *)
(***************************************************************************)
\* the coarse register changes only through a frame of the coarse setter, and the
\* getter returns the value the register holds
CoarseReadsRegister ==
    /\ dev'.coarse # dev.coarse => tx # <<>> /\ tx[1].op = "coarse"
    /\ (Returns /\ call.op = "get_coarse") => call'.result = Value(dev.coarse)

C23_Original ==
    [][ /\ \A c \in CoarseTestValues : set_coarse(c) => AfterFrameSent.coarse = c
        /\ CoarseReadsRegister ]_vars

(***************************************************************************)
(* C23: coarse read-back round trip.  After unit.coarse = c, reading       *)
(* unit.coarse returns c for every c >= 1 (the tested values 1, 10, 100,   *)
(* 1000, 10000, 65535 and the 32-bit values up to 2^31 - 1) and returns 1  *)
(* for c = 0, which the setter replaces by 1 before it is sent.            *)
(***************************************************************************)
C23_CoarseReadback ==
    [][ /\ \A c \in CoarseTestValues \cup CoarseInputs :
              set_coarse(c) => AfterFrameSent.coarse = IF c >= 1 THEN c ELSE 1
        /\ CoarseReadsRegister ]_vars

\* 65536 has been set, processed and read back
C23_Witness ==
    /\ call.pc = "done" /\ call.op = "get_coarse"
    /\ call.result = Value(65536)
    /\ dev.coarse = 65536
    /\ tx = <<>> /\ rx = <<>>

(***************************************************************************)
(* C24: coarse clamp.  Given a cycle count below 1, directly or through    *)
(* the delay_ns setter, the coarse setter writes a complete SET_COARSE     *)
(* frame (the opcode and four bytes) carrying exactly 1; a cycle count of  *)
(* 1 or more is written unchanged; so every SET_COARSE frame DelayUnit     *)
(* writes carries a value of at least 1.                                   *)
(***************************************************************************)
\* the bytes this step has put on the link
Sent == Bytes(SubSeq(tx', Len(tx) + 1, Len(tx')))

\* the step has written one complete SET_COARSE frame carrying value v
SetCoarseFrame(v) ==
    /\ Len(Sent) = 5 /\ Sent[1] = SET_COARSE
    /\ \A i \in 2..5 : Sent[i] \in 0..255
    /\ Sent[2] + 256 * (Sent[3] + 256 * (Sent[4] + 256 * Sent[5])) = v

\* the cycle count the delay_ns setter computes: the nearest to nanoseconds / 5,
\* the even one of two equally near
NearestCycles(nanoseconds) ==
    CHOOSE k \in -1..201 :
        LET n == nanoseconds.numerator
            d == 5 * nanoseconds.denominator
            Dist(j) == IF j * d >= n THEN j * d - n ELSE n - j * d
        IN  \A j \in -1..201 :
              \/ Dist(k) < Dist(j)
              \/ Dist(k) = Dist(j) /\ (k % 2 = 0 \/ j = k)

C24_CoarseClamp ==
    [][ /\ \A c \in -1..2 :
              set_coarse(c) => SetCoarseFrame(IF c < 1 THEN 1 ELSE c)
        /\ \A ns \in DelayNsInputs :
              set_delay_ns(ns) =>
                  SetCoarseFrame(IF NearestCycles(ns) < 1 THEN 1 ELSE NearestCycles(ns))
        /\ (HostWrites /\ Sent[1] = SET_COARSE) =>
              \E v \in 1..200 : SetCoarseFrame(v) ]_vars

\* the frame written for a cycle count below 1 is on the link: it carries 1
C24_Witness ==
    /\ Pending("coarse") /\ Bytes(tx) = <<SET_COARSE, 1, 0, 0, 0>>
    /\ dev.coarse = 2

(***************************************************************************)
(* C25: round-trip exactness of the picosecond codec of                    *)
(* src/delay_control.py.  For a requested delay ps >= 0 that is a multiple *)
(* of 20 ps, the get_delay() that set_delay(ps) ends with returns exactly  *)
(* ps; every get_delay() returns coarse * 10000 plus the fine value cut to *)
(* a multiple of 20, for the coarse and fine values the device holds.      *)
(***************************************************************************)
C25_PicosecondRoundTrip ==
    [][ /\ (Returns /\ call.op = "DelayController.set_delay"
               /\ call.result.v.requested_ps % 20 = 0) =>
              /\ call'.result.v.requested_ps = call.result.v.requested_ps
              /\ call'.result.v.actual_ps = Value(call.result.v.requested_ps)
        /\ (Returns /\ call.op \in {"DelayController.set_delay", "DelayController.get_delay"}) =>
              /\ dev.fine < 10000
              /\ LET got == IF call.op = "DelayController.get_delay"
                             THEN call'.result ELSE call'.result.v.actual_ps
                 IN  got = Value(dev.coarse * 10000 + dev.fine - (dev.fine % 20)) ]_vars

\* set_delay(10020) has returned with actual_ps = 10020
C25_Witness ==
    /\ call.pc = "done" /\ call.op = "DelayController.set_delay"
    /\ call.result.v.requested_ps = 10020
    /\ call.result.v.actual_ps = Value(10020)
    /\ dev.coarse = 1 /\ dev.fine = 20

(***************************************************************************)
(* C26: repeated round trips are exact.  For every delay d returned by     *)
(* get_delay(), set_delay(d) followed by get_delay() returns d again, in   *)
(* both legacy controllers: the actual_ps that set_delay(d) returns, which *)
(* is the result of the get_delay() it ends with, is d.                    *)
(***************************************************************************)
C26_NoDrift ==
    [][ (Returns /\ call.op \in {"DelayController.set_delay", "LegacyDelayUnit.set_delay"}) =>
            call'.result.v.actual_ps = Value(call.result.v.requested_ps) ]_vars

(***************************************************************************)
(* C27 as stated: for every steps_per_cycle N and declared maximum fine    *)
(* magnitude M with M < N/2, the fine value produced by split satisfies    *)
(* |fine| <= M.                                                            *)
(***************************************************************************)
\* a split has returned; its inputs and outputs
SplitDone == call.pc = "done" /\ call.op = "split"

SplitTotal == call.data[1]

SplitN == call.data[2]

SplitM == call.data[3]

SplitFine == call.result.v.fine

SplitCoarse == call.result.v.coarse

C27_Original ==
    (SplitDone /\ 2 * SplitM < SplitN) =>
        (SplitFine <= SplitM /\ -SplitFine <= SplitM)

(***************************************************************************)
(* C27: aliasing protection bound.  For every steps_per_cycle N, declared  *)
(* maximum fine magnitude M < N and total step count, the fine value       *)
(* produced by split lies in -(N - M - 1) .. M and coarse * N + fine is    *)
(* the total; a pre-correction fine of M + 1 becomes -(N - M - 1) with     *)
(* coarse incremented by 1.  |fine| <= M holds exactly when N <= 2M + 1    *)
(* (as for N = 560 with M = 280); for M < (N - 1)/2 the corrected fine of  *)
(* M + 1 has a magnitude above M.                                          *)
(***************************************************************************)
C27_AliasingBound ==
    SplitDone =>
        /\ -(SplitN - SplitM - 1) <= SplitFine /\ SplitFine <= SplitM
        /\ SplitCoarse * SplitN + SplitFine = SplitTotal
        /\ SplitTotal % SplitN = SplitM + 1 =>
              /\ SplitFine = -(SplitN - SplitM - 1)
              /\ SplitCoarse = (SplitTotal \div SplitN) + 1
        /\ SplitN <= 2 * SplitM + 1 => (SplitFine <= SplitM /\ -SplitFine <= SplitM)

\* N = 4, M = 1: a pre-correction fine of 2 has become -2 with the coarse count
\* incremented
C27_Witness ==
    /\ SplitDone /\ SplitN = 4 /\ SplitM = 1 /\ SplitTotal = 6
    /\ SplitFine = -2 /\ SplitCoarse = 2

(***************************************************************************)
(* C28 as stated: after unit.delay_ns = d, reading unit.delay_ns returns   *)
(* 5 * round(d / 5) ns, for every requested delay d >= 0.                  *)
(***************************************************************************)
\* the coarse register changes only through a frame of the coarse setter, and the
\* delay_ns getter returns 5 ns for each cycle the register holds
DelayReadsRegister ==
    /\ dev'.coarse # dev.coarse => tx # <<>> /\ tx[1].op = "coarse"
    /\ (Returns /\ call.op = "get_delay_ns") => call'.result = Value(5 * dev.coarse)

C28_Original ==
    [][ /\ \A ns \in DelayNsInputs :
              (ns.numerator >= 0 /\ set_delay_ns(ns)) =>
                  5 * AfterFrameSent.coarse = 5 * NearestCycles(ns)
        /\ DelayReadsRegister ]_vars

(***************************************************************************)
(* C28: nanosecond delay quantisation read-back.  After unit.delay_ns = d, *)
(* reading unit.delay_ns returns 5 * round(d / 5) ns for every requested   *)
(* delay d whose nearest cycle count round(d / 5) is at least 1 (the       *)
(* tested 5, 10, ..., 1000 ns among them), and returns 5 ns for every      *)
(* smaller d (0 <= d <= 2.5), which is sent as 1 cycle.                    *)
(***************************************************************************)
C28_DelayReadback ==
    [][ /\ \A ns \in DelayNsInputs :
              set_delay_ns(ns) =>
                  5 * AfterFrameSent.coarse =
                      IF NearestCycles(ns) >= 1 THEN 5 * NearestCycles(ns) ELSE 5
        /\ DelayReadsRegister ]_vars

\* the largest tested delay has been set, processed and read back
C28_Witness ==
    /\ call.pc = "done" /\ call.op = "get_delay_ns"
    /\ call.result = Value(1000)
    /\ dev.coarse = 200
    /\ tx = <<>> /\ rx = <<>>

(***************************************************************************)
(* C29 as stated: the coarse cycle count sent for a requested delay of ns  *)
(* nanoseconds is floor(ns / 5), for every integer ns >= 5.                *)
(***************************************************************************)
\* the whole numbers of nanoseconds from 5 up
WholeNanoseconds == {ns \in DelayNsInputs : ns.denominator = 1 /\ ns.numerator >= 5}

C29_Original ==
    [][ \A ns \in WholeNanoseconds :
            set_delay_ns(ns) => SetCoarseFrame(ns.numerator \div 5) ]_vars

(***************************************************************************)
(* C29: on the 5 ns-per-cycle generation with no fine stage the delay_ns   *)
(* setter rounds to the nearest cycle: the coarse count sent for ns        *)
(* nanoseconds is round(ns / 5), which is floor(ns / 5) when ns mod 5 is   *)
(* 0, 1 or 2 (17 ns gives 3) and floor(ns / 5) + 1 when ns mod 5 is 3 or 4 *)
(* (18 ns gives 4), for every integer ns >= 5.                             *)
(***************************************************************************)
C29_RoundsToNearest ==
    [][ \A ns \in WholeNanoseconds :
            set_delay_ns(ns) =>
                /\ SetCoarseFrame((ns.numerator + 2) \div 5)
                /\ ns.numerator % 5 <= 2 => SetCoarseFrame(ns.numerator \div 5)
                /\ ns.numerator % 5 >= 3 => SetCoarseFrame((ns.numerator \div 5) + 1)
                /\ ns.numerator = 17 => SetCoarseFrame(3)
                /\ ns.numerator = 18 => SetCoarseFrame(4) ]_vars

\* the frame of a delay of 18 to 22 ns is on the link: 4 cycles
C29_Witness ==
    /\ Pending("coarse") /\ Bytes(tx) = <<SET_COARSE, 4, 0, 0, 0>>
    /\ dev.coarse = 3

(***************************************************************************)
(* C30 as stated: after reset_counter(), the setting of trigger_mode,      *)
(* delay_ns and the output width, and exactly one soft_trigger() with no   *)
(* other command, the status trigger_count is 1, for every delay and       *)
(* width.                                                                  *)
(***************************************************************************)
\* the device processes the first soft trigger after reset_counter and the
\* configuration commands
FirstSoftTrigger ==
    /\ tx # <<>> /\ tx[1].op = "soft_trigger"
    /\ DeviceStep
    /\ dev.trigger_counter = 0
    /\ obs.clean /\ obs.n = 0 /\ ~obs.idle

\* the status query returns the trigger counter of the device
StatusReadsCounter ==
    (Returns /\ call.op = "get_status") =>
        /\ call'.result.kind = "value"
        /\ call'.result.v.trigger_count = dev.trigger_counter

C30_Original ==
    [][ /\ FirstSoftTrigger => dev'.trigger_counter = 1
        /\ StatusReadsCounter ]_vars

(***************************************************************************)
(* C30: after reset_counter(), the setting of trigger_mode, delay_ns and   *)
(* the output width, and exactly one soft_trigger() with no other command, *)
(* the status trigger_count is 1 if the device is Armed (with the edge     *)
(* type RISING or FALLING and the edge counting disabled, as the tests set *)
(* it up) and 0 if the device is Disarmed, for every delay and every width *)
(* in {5, 10, 25, 50, 100} ns: no command of the sequence arms the device. *)
(***************************************************************************)
C30_SoftTriggerCounted ==
    [][ /\ FirstSoftTrigger =>
              /\ dev'.trigger_counter = IF dev.armed THEN 1 ELSE 0
              /\ dev'.coarse = dev.coarse
              /\ dev'.output_trigger_width = dev.output_trigger_width
        /\ dev'.armed => dev.armed
        /\ StatusReadsCounter ]_vars

\* the status read after the soft trigger of an Armed device configured with
\* 1000 ns and 100 ns: the count is 1
C30_Witness ==
    /\ call.pc = "done" /\ call.op = "get_status"
    /\ call.result.v.trigger_count = 1
    /\ dev.trigger_counter = 1
    /\ dev.coarse = 200 /\ dev.output_trigger_width = 20
    /\ obs.clean /\ obs.n = 1

(***************************************************************************)
(* C31 as stated: the trigger_count a status query reports equals the      *)
(* number of triggers fired since the last RESET_COUNT, for every number   *)
(* of fired triggers.                                                      *)
(***************************************************************************)
StatusReturns == Returns /\ call.op = "get_status" /\ call'.result.kind = "value"

C31_Original ==
    [][StatusReturns => call'.result.v.trigger_count = dev.trigger_counter]_vars

(***************************************************************************)
(* C31: the trigger_count a status query reports equals the number of      *)
(* triggers fired since the last RESET_COUNT for 0 to 65535 fired          *)
(* triggers.  The unsigned 16-bit status field cannot carry a larger       *)
(* count: from the 65536th trigger on the reported value is at most 65535  *)
(* and differs from the number fired.                                      *)
(***************************************************************************)
C31_StatusCountInField ==
    [][StatusReturns =>
          /\ call'.result.v.trigger_count \in 0..(2^16 - 1)
          /\ dev.trigger_counter < 2^16 =>
                 call'.result.v.trigger_count = dev.trigger_counter
          /\ dev.trigger_counter >= 2^16 =>
                 call'.result.v.trigger_count # dev.trigger_counter ]_vars

\* the status read after the trigger that brings the count to 2^16 - 1
C31_Witness ==
    /\ call.pc = "done" /\ call.op = "get_status"
    /\ call.result.kind = "value"
    /\ call.result.v.trigger_count = 2^16 - 1
    /\ dev.trigger_counter = 2^16 - 1

(***************************************************************************)
(* C32: every setter of DelayUnit and set_delay of the legacy controllers  *)
(* writes zero bytes or complete frames only (the opcode byte together     *)
(* with its full fixed-width payload), for every argument value: an opcode *)
(* byte is never left on the link without its payload.                     *)
(***************************************************************************)
\* the bytes are a run of complete frames of the device's generation
RECURSIVE WholeFrames(_)
WholeFrames(b) ==
    IF b = <<>> THEN TRUE
    ELSE LET w == 1 + (IF IsLegacy THEN LegacyPayloadWidth(b[1]) ELSE PayloadWidth(b[1]))
         IN  Len(b) >= w /\ WholeFrames(SubSeq(b, w + 1, Len(b)))

C32_FrameAtomicity == [][HostWrites => WholeFrames(Sent)]_vars

(***************************************************************************)
(* C33: the bytes a GET operation decodes are the device's reply to that   *)
(* same GET command, also after an earlier read has timed out short and    *)
(* the late bytes of its reply have arrived.  While a getter waits in      *)
(* ser.read no other command is written, so its reply is the last         *)
(* call.want bytes the device appends once the link is empty: the read     *)
(* returns bytes of the getter's own reply only if nothing else is in the  *)
(* input buffer.                                                           *)
(***************************************************************************)
C33_ResponseAttribution ==
    [][ (Returns /\ call'.data # <<>>) => (tx = <<>> /\ Len(rx) = call.want) ]_vars

(***************************************************************************)
(* C34 as stated: while set_delay(new) is changing the delay from old to   *)
(* new, the total delay (coarse*10000 + fine) held by the device is at     *)
(* every moment the old or the new requested value.                        *)
(***************************************************************************)
\* a call of set_delay that has passed its argument check is under way or done
SettingDelay ==
    /\ call.op \in {"DelayController.set_delay", "LegacyDelayUnit.set_delay"}
    /\ call.result.kind = "value"

\* the total delay a legacy device holds, in picoseconds
Total(d) == d.coarse * 10000 + d.fine

C34_Original ==
    [][ (SettingDelay /\ dev' # dev) =>
            Total(dev') \in {Total(dev), call.result.v.requested_ps} ]_vars

(***************************************************************************)
(* C34: set_delay(new) changes the delay in two steps, the coarse frame    *)
(* and, after a sleep of 10 ms, the fine frame.  The device holds the old  *)
(* delay, then the new coarse part with the old fine part, then the new    *)
(* delay; when set_delay returns the device holds the requested total.  An *)
(* edge arriving between the two frames is delayed by the new coarse part  *)
(* and the old fine part, which is the old or the new delay only if one of *)
(* the two parts does not change.                                          *)
(***************************************************************************)
C34_CoarseThenFine ==
    [][ /\ (SettingDelay /\ dev' # dev) =>
              \/ /\ dev'.coarse = call.result.v.coarse_cycles
                 /\ dev'.fine = dev.fine
              \/ /\ dev.coarse = call.result.v.coarse_cycles
                 /\ dev'.coarse = dev.coarse
                 /\ dev'.fine = call.result.v.fine_ps
                 /\ Total(dev') = call.result.v.requested_ps
        /\ (SettingDelay /\ call.pc = "read" /\ call'.pc = "done") =>
              Total(dev) = call.result.v.requested_ps ]_vars

\* set_delay(10020) on a device holding 30288 ps: the coarse frame has been
\* executed, the fine frame has not, and the device holds 10288 ps
C34_Witness ==
    /\ SettingDelay /\ call.pc # "done"
    /\ call.result.v.requested_ps = 10020
    /\ dev.coarse = 1 /\ dev.fine = 288

(***************************************************************************)
(* C35 as stated: in every reachable state edge_counter is below           *)
(* edge_count_target, under any interleaving of qualifying edges, arm(),   *)
(* disarm(), reset_edge_count(), counter_mode changes and edge_count_target *)
(* changes, a lowered target and a target of 0 included.                   *)
(***************************************************************************)
BelowTarget(d) == d.edge_counter < d.edge_count_target

C35_Original == BelowTarget(dev)

(***************************************************************************)
(* C35: edge_counter < edge_count_target is kept by qualifying edges,      *)
(* arm(), disarm(), reset_edge_count(), counter_mode changes and by a      *)
(* change of edge_count_target to a value above the count held.  Only the  *)
(* device executing an edge_count_target command whose value is at or      *)
(* below the count held (0 included) breaks it, leaving the count as it    *)
(* is; from then on a counted edge raises edge_counter past the target     *)
(* without firing a trigger.                                               *)
(***************************************************************************)
C35_BelowTargetUnlessLowered ==
    [][ /\ (BelowTarget(dev) /\ ~BelowTarget(dev')) =>
              /\ Processed("edge_count_target")
              /\ dev'.edge_count_target <= dev.edge_counter
              /\ dev'.edge_counter = dev.edge_counter
        /\ (~BelowTarget(dev) /\ dev'.edge_counter > dev.edge_counter) =>
              /\ dev'.trigger_counter = dev.trigger_counter
              /\ ~BelowTarget(dev') ]_vars

\* the target was lowered to 1 while two edges were counted, and the device is
\* still Armed and counting
C35_Witness ==
    /\ dev.armed /\ dev.counter_mode = CounterMode_ENABLED
    /\ dev.edge_counter = 2 /\ dev.edge_count_target = 1

(***************************************************************************)
(* C36 as stated: if the state stays Armed with counter_mode ENABLED and   *)
(* qualifying edges keep arriving, trigger_counter eventually increases,   *)
(* whatever edge_count_target values the host has set before or during the *)
(* count.                                                                  *)
(***************************************************************************)
Counting == dev.armed /\ dev.counter_mode = CounterMode_ENABLED

C36_Original ==
    \A t \in 0..(MaxTrig - 1) :
        (Counting /\ dev.trigger_counter = t) ~> (dev.trigger_counter > t)

(***************************************************************************)
(* C36: if the state stays Armed with counter_mode ENABLED, edge_counter   *)
(* is below edge_count_target and qualifying edges keep arriving, then     *)
(* trigger_counter eventually increases, unless the host sets an           *)
(* edge_count_target at or below the count held (0 included).  After that  *)
(* the count has passed the target: a qualifying edge fires no trigger,    *)
(* leaves the device Armed and leaves the count at or above the target,    *)
(* so no trigger fires until the host resets the edge counter or sets a    *)
(* target above the count.                                                 *)
(***************************************************************************)
C36_FiresUnlessPassed ==
    /\ \A t \in 0..(MaxTrig - 1) :
           (Counting /\ BelowTarget(dev) /\ dev.trigger_counter = t)
               ~> (dev.trigger_counter > t \/ ~BelowTarget(dev))
    /\ [][ (Counting /\ ~BelowTarget(dev) /\ QualifyingEdge) =>
               /\ dev'.trigger_counter = dev.trigger_counter
               /\ dev'.armed
               /\ ~BelowTarget(dev') ]_vars

\* the second edge under target 2 has fired the first trigger and the device
\* counts on
C36_Witness ==
    /\ Counting /\ dev.edge_count_target = 2
    /\ dev.trigger_counter = 1 /\ dev.edge_counter = 0
    /\ obs.clean /\ obs.n = 2

(***************************************************************************)
(* C37: counter_mode ENABLED with edge_count_target 1 is observably the    *)
(* same as counter_mode DISABLED: started from the same state with         *)
(* edge_counter 0 and fed the same sequence of arm, disarm and edges, both *)
(* produce the same trigger_counter and armed flag after every step, in    *)
(* SINGLE and in REPEAT mode.  Each step of a device in ENABLED mode with  *)
(* target 1 and edge_counter 0 leads to the state the same step gives its  *)
(* twin in DISABLED mode, and keeps the target at 1 and edge_counter at 0. *)
(***************************************************************************)
\* the device counts every edge as the first of one
FirstEdgeFires(d) ==
    /\ d.counter_mode = CounterMode_ENABLED
    /\ d.edge_count_target = 1
    /\ d.edge_counter = 0

\* the same device with the edge counting disabled
Twin(d) == [d EXCEPT !.counter_mode = CounterMode_DISABLED]

C37_TargetOneIsDisabled ==
    [][ FirstEdgeFires(dev) =>
          /\ Processed("arm") =>
                 Twin(dev') = Exec(Twin(dev), ARM, <<>>) /\ FirstEdgeFires(dev')
          /\ Processed("disarm") =>
                 Twin(dev') = Exec(Twin(dev), DISARM, <<>>) /\ FirstEdgeFires(dev')
          /\ Processed("soft_trigger") =>
                 Twin(dev') = OnPulse(Twin(dev)) /\ FirstEdgeFires(dev')
          /\ \A dir \in {"rise", "fall"} :
                 ExternalTransition(dir) =>
                     Twin(dev') = OnTransition(Twin(dev), dir) /\ FirstEdgeFires(dev') ]_vars

\* two edges have fired two triggers on an Armed device in REPEAT mode with the
\* edge counting enabled and target 1
C37_Witness ==
    /\ FirstEdgeFires(dev) /\ dev.armed /\ dev.armed_mode = REPEAT
    /\ dev.trigger_counter = 2
    /\ obs.clean /\ obs.n = 2 /\ obs.arms = 1

(***************************************************************************)
(* C38: every enum-valued getter of DelayUnit (edge, trigger_mode,         *)
(* counter_mode, armed_mode) returns a member of its enumeration or the    *)
(* failure value None, for every response: zero bytes, and one byte of any *)
(* value 0..255.                                                           *)
(***************************************************************************)
\* the enumeration of the getter op
EnumOf(op) ==
    CASE op = "get_edge" -> EdgeType
      [] op = "get_trigger_mode" -> TriggerMode
      [] op = "get_counter_mode" -> CounterMode
      [] op = "get_armed_mode" -> ArmedMode

C38_EnumOrNone ==
    [][ Returns =>
          \/ call'.result = None
          \/ call'.result.kind = "value" /\ call'.result.v \in EnumOf(call.op) ]_vars

(***************************************************************************)
(* C39: SET and action operations of DelayUnit are fire-and-forget: each   *)
(* setter and each of arm, disarm, soft_trigger, reset_counter and         *)
(* reset_edge_count only writes and never reads from the transport, while  *)
(* each GET operation writes exactly one opcode byte and then performs     *)
(* exactly one read of exactly the expected response width.                *)
(***************************************************************************)
\* the host operation that has written in this step
WrittenOp == tx'[Len(tx')].op

C39_FireAndForget ==
    [][ ~IsLegacy =>
          /\ (HostWrites /\ WrittenOp \notin GetterOps) =>
                 rx' = rx /\ call' = call
          /\ (HostWrites /\ WrittenOp \in GetterOps) =>
                 /\ Len(Sent) = 1
                 /\ rx' = rx
                 /\ call'.op = WrittenOp /\ call'.pc = "read" /\ call'.data = <<>>
                 /\ call'.want = Len(Respond(dev, Sent[1])) /\ call'.want > 0
          /\ (call.pc = "read" /\ call' # call) =>
                 /\ call'.pc = "done" /\ call'.op = call.op
                 /\ tx' = tx
                 /\ rx = call'.data \o rx' /\ Len(call'.data) <= call.want
          /\ Len(rx') < Len(rx) => call.pc = "read" ]_vars

\* the armed getter has returned after its one read of one byte, and arm() has
\* then written its opcode without touching the input buffer or the result
C39_Witness ==
    /\ ~IsLegacy
    /\ call.pc = "done" /\ call.op = "get_armed" /\ Len(call.data) = 1
    /\ Pending("arm") /\ rx = <<>>

(***************************************************************************)
(* The sweep command of main() in delay_control.py, run against a legacy   *)
(* device that answers every GET before the read times out.  While main()  *)
(* runs, obs holds its frame: the position pc, the local variable delay,   *)
(* the arguments stop and step, and the state of the controller's port.   *)
(***************************************************************************)
SweepStart == {-10000, 0, 10000}

SweepStop == {0, 20000}

SweepStep == {-10000, 0, 10000}

\* delay = args.start, with the controller constructed and its port open
main_sweep(start, stop, step) ==
    [pc |-> "while", delay |-> start, stop |-> stop, step |-> step,
     port |-> "open"]

InitSweep ==
    /\ dev \in LegacyDeviceAtRest
    /\ tx = <<>>
    /\ obs \in {main_sweep(start, stop, step) :
                   start \in SweepStart, stop \in SweepStop, step \in SweepStep}
    /\ rx = <<>>
    /\ call = Idle

\* while delay <= args.stop: the loop is entered or left
main_sweep_while ==
    /\ obs.pc = "while"
    /\ obs' = [obs EXCEPT !.pc = IF obs.delay <= obs.stop THEN "set_delay" ELSE "finally"]
    /\ UNCHANGED <<dev, tx, rx, call>>

\* result = controller.set_delay(delay)
main_sweep_set_delay ==
    /\ obs.pc = "set_delay" /\ call.pc = "idle"
    /\ DelayController_set_delay(obs.delay)

\* set_delay() has returned: time.sleep(0.1) is over
main_sweep_sleep ==
    /\ obs.pc = "set_delay"
    /\ call.op = "DelayController.set_delay" /\ call.pc = "done"
    /\ call.result.kind = "value"
    /\ obs' = [obs EXCEPT !.pc = "get_status"]
    /\ call' = Idle
    /\ UNCHANGED <<dev, tx, rx>>

\* set_delay() has raised: nothing in main() catches it, the finally clause runs
main_sweep_raise ==
    /\ obs.pc = "set_delay"
    /\ call.op = "DelayController.set_delay" /\ call.pc = "done"
    /\ call.result.kind = "raise"
    /\ obs' = [obs EXCEPT !.pc = "finally"]
    /\ call' = Idle
    /\ UNCHANGED <<dev, tx, rx>>

\* status = controller.get_status()
main_sweep_get_status ==
    /\ obs.pc = "get_status" /\ call.pc = "idle"
    /\ DelayController_get_status

\* get_status() has returned: delay += args.step
main_sweep_step ==
    /\ obs.pc = "get_status"
    /\ call.op = "DelayController.get_status" /\ call.pc = "done"
    /\ obs' = [obs EXCEPT !.pc = "while", !.delay = @ + obs.step]
    /\ call' = Idle
    /\ UNCHANGED <<dev, tx, rx>>

\* finally: controller.close()
main_finally ==
    /\ obs.pc = "finally"
    /\ obs' = [obs EXCEPT !.pc = "exit", !.port = "closed"]
    /\ UNCHANGED <<dev, tx, rx, call>>

NextSweep ==
    \/ main_sweep_while
    \/ main_sweep_set_delay
    \/ DelayController_set_delay_fine
    \/ DelayController_set_delay_get
    \/ main_sweep_sleep
    \/ main_sweep_raise
    \/ main_sweep_get_status
    \/ main_sweep_step
    \/ main_finally
    \/ LegacyReadComplete
    \/ LegacyDeviceStep

\* the program and the device keep running: neither stops while it has a step
SpecSweep == InitSweep /\ [][NextSweep]_vars /\ WF_vars(NextSweep)

\* C40: the sweep command terminates for every integer start, stop and step,
\* with the controller's port closed afterwards: main() started on a sweep
\* eventually leaves through its finally clause.
C40_SweepTerminates == <>(obs.pc = "exit" /\ obs.port = "closed")

====
